---- MODULE Spec2Model ----
(***************************************************************************)
(* Model of the ERCOT load / weather analytics API                         *)
(* (src/fastapi-server/main.py).  The database tables are the inputs, the  *)
(* request handlers are the actions, and the SQL each handler runs is      *)
(* evaluated by operators that follow the query text clause by clause.     *)
(* Numbers are exact rationals <<numerator, denominator>>; SQL NULL is the *)
(* pair <<0, 0>>.                                                          *)
(***************************************************************************)
EXTENDS Integers, Sequences, FiniteSets, TLC

VARIABLES
    ercot_load_wide_compare,  \* staging.ercot_load_wide_compare: set of rows, or NoTable
    ercot_load,               \* ercot_load: set of hourly rows, or NoTable
    weather_hourly,           \* weather_hourly: set of hourly station rows, or NoTable
    station_zone_map,         \* station_zone_map: (station_id, zone_code) rows, or NoTable
    extreme_heat_load,        \* extreme_heat_load: set of rows, or NoTable
    heatwave_streaks,         \* heatwave_streaks: set of rows, or NoTable
    ercot_load_wide_expected, \* staging.ercot_load_wide_expected: set of rows, or NoTable
    precipitation_impact,     \* precipitation_impact: set of rows, or NoTable
    load_outlier_weather,     \* load_outlier_weather: set of rows, or NoTable
    response,                 \* the outcome of the last request handled
    requests,                 \* the requests in flight, each at a step of its handler
    connections               \* the connections psycopg2.connect has returned so far

vars == <<ercot_load_wide_compare, ercot_load, weather_hourly, station_zone_map,
          extreme_heat_load, heatwave_streaks, ercot_load_wide_expected,
          precipitation_impact, load_outlier_weather, response, requests,
          connections>>

tables == <<ercot_load_wide_compare, ercot_load, weather_hourly, station_zone_map,
            extreme_heat_load, heatwave_streaks, ercot_load_wide_expected,
            precipitation_impact, load_outlier_weather>>

-----------------------------------------------------------------------------
(* Exact arithmetic with SQL NULL propagation.                             *)

Null == <<0, 0>>

IsNull(x) == x[2] = 0

Abs(i) == IF i < 0 THEN -i ELSE i

RECURSIVE Gcd(_, _)
Gcd(a, b) == IF b = 0 THEN a ELSE Gcd(b, a % b)

\* The rational n/d in lowest terms with a positive denominator.
Norm(n, d) ==
    IF d = 0 THEN Null
    ELSE LET g == Gcd(Abs(n), Abs(d))
             s == IF d < 0 THEN -1 ELSE 1
         IN  <<(s * n) \div g, (s * d) \div g>>

R(i) == <<i, 1>>

RAdd(a, b) == IF IsNull(a) \/ IsNull(b) THEN Null
              ELSE Norm(a[1] * b[2] + b[1] * a[2], a[2] * b[2])

RSub(a, b) == IF IsNull(a) \/ IsNull(b) THEN Null
              ELSE Norm(a[1] * b[2] - b[1] * a[2], a[2] * b[2])

RMul(a, b) == IF IsNull(a) \/ IsNull(b) THEN Null
              ELSE Norm(a[1] * b[1], a[2] * b[2])

\* Every division in the queries is guarded (CASE WHEN y = 0, NULLIF(.., 0)),
\* so the divisor is NULL or non-zero wherever this is applied.
RDiv(a, b) == IF IsNull(a) \/ IsNull(b) THEN Null
              ELSE Norm(a[1] * b[2], a[2] * b[1])

RAbs(a) == IF IsNull(a) THEN Null ELSE <<Abs(a[1]), a[2]>>

RSq(a) == RMul(a, a)

\* Comparisons of non-NULL values; a comparison with NULL is not TRUE in SQL.
RLt(a, b) == ~IsNull(a) /\ ~IsNull(b) /\ a[1] * b[2] < b[1] * a[2]
RLe(a, b) == ~IsNull(a) /\ ~IsNull(b) /\ a[1] * b[2] <= b[1] * a[2]
RGt(a, b) == RLt(b, a)
RGe(a, b) == RLe(b, a)
REq(a, b) == ~IsNull(a) /\ ~IsNull(b) /\ a = b

\* The members of a finite set as a sequence (the order is immaterial to the
\* aggregates below, which are sums and counts).
RECURSIVE SeqOf(_)
SeqOf(S) == IF S = {} THEN <<>>
            ELSE LET x == CHOOSE y \in S : TRUE IN <<x>> \o SeqOf(S \ {x})

NonNull(s) == SelectSeq(s, LAMBDA x : ~IsNull(x))

RECURSIVE SeqSum(_)
SeqSum(s) == IF s = <<>> THEN R(0) ELSE RAdd(Head(s), SeqSum(Tail(s)))

\* SQL SUM / AVG: NULL inputs are ignored; NULL when no input is non-NULL.
SqlSum(s) == IF NonNull(s) = <<>> THEN Null ELSE SeqSum(NonNull(s))
SqlAvg(s) == IF NonNull(s) = <<>> THEN Null
             ELSE RDiv(SeqSum(NonNull(s)), R(Len(NonNull(s))))
\* SQL NULLIF(a, 0)
NullIfZero(a) == IF ~IsNull(a) /\ a[1] = 0 THEN Null ELSE a

\* SQL MAX: the greatest non-NULL input, NULL when there is none.
RECURSIVE SeqMax(_)
SeqMax(s) == IF Len(s) = 1 THEN Head(s)
             ELSE LET m == SeqMax(Tail(s)) IN IF RGt(Head(s), m) THEN Head(s) ELSE m
SqlMax(s) == IF NonNull(s) = <<>> THEN Null ELSE SeqMax(NonNull(s))

\* ORDER BY of non-NULL values, ascending (insertion sort).
RECURSIVE InsertAsc(_, _)
InsertAsc(x, s) == IF s = <<>> THEN <<x>>
                   ELSE IF RLe(x, Head(s)) THEN <<x>> \o s
                   ELSE <<Head(s)>> \o InsertAsc(x, Tail(s))
RECURSIVE SortAsc(_)
SortAsc(s) == IF s = <<>> THEN <<>> ELSE InsertAsc(Head(s), SortAsc(Tail(s)))

\* floor and ceiling of a rational.
Floor(a) == a[1] \div a[2]
Ceil(a) == -((-a[1]) \div a[2])

\* SQL VAR_SAMP, the square of STDDEV_SAMP: NULL for fewer than 2 inputs.
VarSamp(s) ==
    LET v == NonNull(s)
        SqDev(mean) == SeqSum([i \in 1..Len(v) |-> RSq(RSub(v[i], mean))])
    IN  IF Len(v) < 2 THEN Null
        ELSE RDiv(SqDev(RDiv(SeqSum(v), R(Len(v)))), R(Len(v) - 1))

-----------------------------------------------------------------------------
(* Requests and responses.                                                 *)

\* A table that does not exist in the database, and a table holding rows.
NoTable == [exists |-> FALSE, rows |-> {}]
Table(rows) == [exists |-> TRUE, rows |-> rows]

\* An optional query parameter that was not passed (Query(None, ...)).
NoDate == 0

\* A parameter declared Query(default, ...): the value of the query string,
\* or the declared default when the query string does not carry the
\* parameter.  NotPassed stands for an absent decimal parameter and
\* NotPassedInt for an absent integer parameter (a value no caller's integer
\* takes in the requests considered).
NotPassed == Null
NotPassedInt == -1
Query(default, value) == IF value = NotPassed THEN default ELSE value
QueryIntRequired(default, value) == value
QueryInt(default, value) == IF value = NotPassedInt THEN default ELSE value

\* What the caller receives: the HTTP status and the body rows.  request is
\* the request answered, sql the rows the handler's query returned (its
\* `results`), connected whether the handler body opened a connection.
Response(endpoint, request, status, rows, sql, connected) ==
    [endpoint |-> endpoint, request |-> request, status |-> status,
     rows |-> rows, sql |-> sql, connected |-> connected]

NoResponse == Response("none", <<>>, 0, <<>>, <<>>, FALSE)

\* No request in flight.
NoRequests == <<>>

\* A timestamp is a calendar month, a day of it and an hour of that day, in
\* UTC; a date is a timestamp's month and day.
TS(m, d, h) == [month |-> m, day |-> d, hour |-> h]

\* (t AT TIME ZONE 'UTC')::date
DayUtc(t) == [month |-> t.month, day |-> t.day]

\* date_trunc('month', d)::date
MonthStart(d) == [month |-> d.month, day |-> 1]

\* The members of a finite set in ascending order of an integer key.
RECURSIVE SortedBy(_, _)
SortedBy(S, key) ==
    IF S = {} THEN <<>>
    ELSE LET x == CHOOSE y \in S : \A z \in S : key[y] <= key[z]
         IN  <<x>> \o SortedBy(S \ {x}, key)

\* Failures of the database layer a request can meet: none, psycopg2.connect
\* raising, the table-existence query raising, the data query raising.
DbFaults == {"none", "connect", "check", "query"}

\* The response is sent to the caller; the worker takes the next request.
Deliver ==
    /\ response # NoResponse
    /\ response' = NoResponse
    /\ UNCHANGED <<tables, requests, connections>>

-----------------------------------------------------------------------------
(* GET /forecast/metrics                                                   *)

\* The regions of the pairs CTE in ORDER BY p.region order (the code lists
\* nine; two are modelled).
RegionOrder == <<"coast", "east">>
Regions == {RegionOrder[i] : i \in 1..Len(RegionOrder)}

MaxHour == 2
Hours == 1..MaxHour

\* The values a row's <region>_actual and <region>_expected columns take.
ActualVals(region) == IF region = "coast" THEN {Null, R(0), R(10)} ELSE {Null, R(10)}
ExpectedVals(region) == IF region = "coast" THEN {Null, R(3), R(9)} ELSE {R(9)}

\* Every content of staging.ercot_load_wide_compare: at most one row per
\* hour_end, each region's actual and expected present or NULL.
CompareCells ==
    {a \in [Regions -> UNION {ActualVals(r) : r \in Regions}] :
        \A r \in Regions : a[r] \in ActualVals(r)}
    \X
    {e \in [Regions -> UNION {ExpectedVals(r) : r \in Regions}] :
        \A r \in Regions : e[r] \in ExpectedVals(r)}
CompareTables ==
    {NoTable} \cup
    UNION {{Table({[hour_end |-> h, actual |-> f[h][1], expected |-> f[h][2]] : h \in H})
             : f \in [H -> CompareCells]} : H \in SUBSET Hours}

\* filtered_data: the rows inside the requested window.
FilteredData(rows, start_date, end_date) ==
    {row \in rows :
        /\ (start_date # NoDate => row.hour_end >= start_date)
        /\ (end_date # NoDate => row.hour_end <= end_date)}

\* pairs: one (region, y, yhat) row per filtered row and region.
Pairs(fd, region) ==
    LET s == SeqOf(fd)
    IN  [i \in 1..Len(s) |->
            [region |-> region, y |-> s[i].actual[region],
             yhat |-> s[i].expected[region]]]

\* means: AVG(y) per region.
YBar(p) == SqlAvg([i \in 1..Len(p) |-> p[i].y])

\* COUNT(*) of the group.
CountStar(p) == Len(p)

\* AVG((p.y - p.yhat)^2)
Mse(p) == SqlAvg([i \in 1..Len(p) |-> RSq(RSub(p[i].y, p[i].yhat))])

\* AVG(ABS(p.y - p.yhat))
Mae(p) == SqlAvg([i \in 1..Len(p) |-> RAbs(RSub(p[i].y, p[i].yhat))])

\* CASE WHEN p.y = 0 THEN NULL ELSE ABS(p.y - p.yhat) / ABS(p.y) END
ApeTerm(q) == IF REq(q.y, R(0)) THEN Null
              ELSE RDiv(RAbs(RSub(q.y, q.yhat)), RAbs(q.y))

\* A variant that divides the summed terms by COUNT(*), so zero-actual pairs
\* dilute the average.
MapePctOverCountStar(p) ==
    IF NonNull([i \in 1..Len(p) |-> ApeTerm(p[i])]) = <<>> THEN Null
    ELSE RMul(R(100), RDiv(SqlSum([i \in 1..Len(p) |-> ApeTerm(p[i])]), R(Len(p))))

\* 100.0 * AVG(CASE ...)
MapePct(p) == RMul(R(100), SqlAvg([i \in 1..Len(p) |-> ApeTerm(p[i])]))

\* SUM((p.y - p.yhat)^2)
SsRes(p) == SqlSum([i \in 1..Len(p) |-> RSq(RSub(p[i].y, p[i].yhat))])

\* SUM((p.y - m.y_bar)^2), m the means row joined USING (region)
SsTotAbout(p, y_bar) == SqlSum([i \in 1..Len(p) |-> RSq(RSub(p[i].y, y_bar))])
SsTot(p) == SsTotAbout(p, YBar(p))

\* 1.0 - (SUM(..) / NULLIF(SUM(..), 0))
R2(p) == RSub(R(1), RDiv(SsRes(p), NullIfZero(SsTot(p))))

\* The SELECT list of one GROUP BY p.region group.
MetricsOf(p, region) ==
    [region |-> region, n |-> CountStar(p), mse |-> Mse(p), mae |-> Mae(p),
     mape_pct |-> MapePct(p), r2 |-> R2(p)]

MetricsRow(fd, region) == MetricsOf(Pairs(fd, region), region)

\* The whole query: one row per region that has pairs rows and passes the
\* optional WHERE p.region = ANY(regions), ORDER BY p.region.  The region
\* parameter is the list its comma-separated text splits into; <<>> is the
\* parameter omitted or empty.
ForecastMetricsQuery(rows, start_date, end_date, region) ==
    LET fd == FilteredData(rows, start_date, end_date)
        keep(r) == /\ fd # {}
                   /\ (region # <<>> => \E i \in 1..Len(region) : region[i] = r)
        rs == SelectSeq(RegionOrder, keep)
    IN  [i \in 1..Len(rs) |-> MetricsRow(fd, rs[i])]

\* The ForecastMetrics response model: every metric a float (None is not
\* accepted), r2 within [-1, 1].
ValidForecastMetrics(row) ==
    /\ ~IsNull(row.mse)
    /\ ~IsNull(row.mae)
    /\ ~IsNull(row.mape_pct)
    /\ ~IsNull(row.r2)
    /\ RGe(row.r2, R(-1))
    /\ RLe(row.r2, R(1))

\* The windows requested: none, from hour 2 on, up to hour 1, and both (a
\* window holding no row).
StartDates == {NoDate, 2}
EndDates == {NoDate, 1}
RegionParams == {<<>>, <<"coast">>, <<"east", "coast">>}

\* The handler: connect, check the table exists (501), run the query, and
\* return the rows through response_model=List[ForecastMetrics]; any
\* exception inside the try block is answered 500, and so is a returned row
\* the response model rejects.
get_forecast_metrics(start_date, end_date, region, fault) ==
    LET ep == "forecast_metrics"
        req == [start_date |-> start_date, end_date |-> end_date,
                region |-> region, fault |-> fault]
    IN  /\ response = NoResponse
        /\ \E results \in {ForecastMetricsQuery(ercot_load_wide_compare.rows,
                                                  start_date, end_date, region)} :
            response' =
              IF fault = "connect" THEN Response(ep, req, 500, <<>>, <<>>, FALSE)
              ELSE IF fault = "check" THEN Response(ep, req, 500, <<>>, <<>>, TRUE)
              ELSE IF ~ercot_load_wide_compare.exists
                   THEN Response(ep, req, 501, <<>>, <<>>, TRUE)
              ELSE IF fault = "query" THEN Response(ep, req, 500, <<>>, <<>>, TRUE)
              ELSE IF \A i \in 1..Len(results) : ValidForecastMetrics(results[i])
                   THEN Response(ep, req, 200, results, results, TRUE)
              ELSE Response(ep, req, 500, <<>>, results, TRUE)
        /\ UNCHANGED <<tables, requests, connections>>

ForecastMetricsRequest ==
    \/ \E s \in StartDates, e \in EndDates, r \in RegionParams :
          get_forecast_metrics(s, e, r, "none")
    \/ \E f \in DbFaults \ {"none"} :
          get_forecast_metrics(NoDate, NoDate, <<>>, f)

InitMetrics ==
    /\ ercot_load_wide_compare \in CompareTables
    /\ ercot_load = NoTable
    /\ weather_hourly = NoTable
    /\ station_zone_map = NoTable
    /\ extreme_heat_load = NoTable
    /\ heatwave_streaks = NoTable
    /\ ercot_load_wide_expected = NoTable
    /\ precipitation_impact = NoTable
    /\ load_outlier_weather = NoTable
    /\ response = NoResponse
    /\ requests = NoRequests
    /\ connections = <<>>

NextMetrics == ForecastMetricsRequest \/ Deliver

SpecMetrics == InitMetrics /\ [][NextMetrics]_vars

-----------------------------------------------------------------------------
(* Properties of GET /forecast/metrics, stated over the table and the      *)
(* request answered, independently of the query operators above.           *)

\* A request whose query ran: no database failure and the table exists.
MetricsAnswered ==
    /\ response.endpoint = "forecast_metrics"
    /\ response.request.fault = "none"
    /\ ercot_load_wide_compare.exists

\* The rows of the table inside the answered request's date window.
MetricsWindow ==
    {row \in ercot_load_wide_compare.rows :
        /\ (response.request.start_date # NoDate
              => row.hour_end >= response.request.start_date)
        /\ (response.request.end_date # NoDate
              => row.hour_end <= response.request.end_date)}

\* The pairs of group g with both actual and expected present.
BothPresent(g) ==
    {row \in MetricsWindow : ~IsNull(row.actual[g]) /\ ~IsNull(row.expected[g])}

MetricsRequested(g) ==
    \/ response.request.region = <<>>
    \/ \E i \in 1..Len(response.request.region) : response.request.region[i] = g

\* Sum of f over a finite set of rows.
RECURSIVE SumOver(_, _)
SumOver(S, f) ==
    IF S = {} THEN R(0)
    ELSE LET x == CHOOSE y \in S : TRUE IN RAdd(f[x], SumOver(S \ {x}, f))

MeanOver(S, f) == IF S = {} THEN Null ELSE RDiv(SumOver(S, f), R(Cardinality(S)))

SqErr(g) == [row \in MetricsWindow |-> RSq(RSub(row.actual[g], row.expected[g]))]
AbsErr(g) == [row \in MetricsWindow |-> RAbs(RSub(row.actual[g], row.expected[g]))]
RelErr(g) == [row \in MetricsWindow |->
                RDiv(RAbs(RSub(row.actual[g], row.expected[g])), RAbs(row.actual[g]))]

\* C1: for every group, n equals the number of the group's pairs in which
\* both actual and expected are present; a pair with either absent is never
\* counted in n.
C1_NCountsBothPresentPairs ==
    MetricsAnswered =>
        \A i \in 1..Len(response.sql) :
            response.sql[i].n = Cardinality(BothPresent(response.sql[i].region))

\* C2: for every group, mape_pct is 100 times the mean of
\* |actual - expected| / |actual| over the both-present pairs with
\* actual # 0 only (NULL when there is none), while the both-present pairs
\* with actual = 0 are counted in n and contribute to mse and mae.
C2_MapeExcludesZeroActual ==
    MetricsAnswered =>
        \A i \in 1..Len(response.sql) :
            LET row == response.sql[i]
                bp == BothPresent(row.region)
                nz == {x \in bp : x.actual[row.region] # R(0)}
            IN  /\ row.mape_pct = RMul(R(100), MeanOver(nz, RelErr(row.region)))
                /\ row.n >= Cardinality(bp)
                /\ row.mse = MeanOver(bp, SqErr(row.region))
                /\ row.mae = MeanOver(bp, AbsErr(row.region))

\* The pairs (0,3) and (10,9) of one group, answered n = 2, mape_pct = 10,
\* mse = 5, mae = 2.
C2_Witness ==
    /\ MetricsAnswered
    /\ response.status = 200
    /\ \E i \in 1..Len(response.rows) :
          /\ response.rows[i].region = "coast"
          /\ {<<x.actual["coast"], x.expected["coast"]>> : x \in BothPresent("coast")}
                = {<<R(0), R(3)>>, <<R(10), R(9)>>}
          /\ response.rows[i].n = 2
          /\ response.rows[i].mape_pct = R(10)
          /\ response.rows[i].mse = R(5)
          /\ response.rows[i].mae = R(2)

\* C3: for every group whose both-present pairs all have the same actual
\* value, the group's result reaches the caller with r2 null beside its n,
\* mse and mae; the call does not fail and r2 is not a number.
C3_ConstantActualReportsNullR2 ==
    MetricsAnswered =>
        \A g \in Regions :
            (/\ MetricsRequested(g)
             /\ BothPresent(g) # {}
             /\ \A x, y \in BothPresent(g) : x.actual[g] = y.actual[g])
            => /\ response.status = 200
               /\ \E i \in 1..Len(response.rows) :
                     /\ response.rows[i].region = g
                     /\ IsNull(response.rows[i].r2)
                     /\ ~IsNull(response.rows[i].mse)
                     /\ ~IsNull(response.rows[i].mae)

\* C4: for every group, the mean of actual and SS_tot used in r2 are taken
\* over exactly the pairs SS_res is summed over (both present, inside the
\* window): r2 = 1 - SS_res / SS_tot with all three over those pairs, and
\* undefined when that SS_tot is 0.
C4_R2OverBothPresentPairs ==
    MetricsAnswered =>
        \A i \in 1..Len(response.sql) :
            LET g == response.sql[i].region
                bp == BothPresent(g)
                mean == MeanOver(bp, [x \in bp |-> x.actual[g]])
                ss_tot == SumOver(bp, [x \in bp |-> RSq(RSub(x.actual[g], mean))])
                ss_res == SumOver(bp, SqErr(g))
            IN  response.sql[i].r2 =
                    IF bp = {} \/ ss_tot = R(0) THEN Null
                    ELSE RSub(R(1), RDiv(ss_res, ss_tot))

\* C5: for a requested group with no both-present pair the computation
\* fails; no metrics record is produced for the group and the failure is
\* not silently omitted.
C5_NoPairsFails ==
    MetricsAnswered =>
        \A g \in Regions :
            (MetricsRequested(g) /\ BothPresent(g) = {})
            => /\ response.status # 200
               /\ \A i \in 1..Len(response.sql) : response.sql[i].region # g

-----------------------------------------------------------------------------
(* GET /load/daily-outliers                                                *)

\* daily_load: AVG(ercot) per UTC day.
DailyLoad(load_rows) ==
    {[day_utc |-> d,
      daily_avg_mw |->
          SqlAvg(LET s == SeqOf({r \in load_rows : DayUtc(r.hour_end) = d})
                 IN  [i \in 1..Len(s) |-> s[i].ercot])]
       : d \in {DayUtc(r.hour_end) : r \in load_rows}}

\* A variant that takes every month's statistics over the days of all months.
MonthlyStatsAllDays(dl) ==
    {LET s == SeqOf(dl)
         v == [i \in 1..Len(s) |-> s[i].daily_avg_mw]
     IN  [month_start |-> m, mu |-> SqlAvg(v), sigma_sq |-> VarSamp(v)]
       : m \in {MonthStart(x.day_utc) : x \in dl}}

\* monthly_stats: AVG and STDDEV_SAMP of the daily averages per month.  sigma
\* is kept as its square, sigma_sq, so that the arithmetic stays exact.
MonthlyStats(dl) ==
    {LET s == SeqOf({x \in dl : MonthStart(x.day_utc) = m})
         v == [i \in 1..Len(s) |-> s[i].daily_avg_mw]
     IN  [month_start |-> m, mu |-> SqlAvg(v), sigma_sq |-> VarSamp(v)]
       : m \in {MonthStart(x.day_utc) : x \in dl}}

\* value > mu + k * sigma and value < mu - k * sigma for k >= 0, sigma >= 0,
\* compared through squares: value - mu > k * sigma exactly when
\* value - mu > 0 and (value - mu)^2 > k^2 * sigma^2.  A NULL operand makes
\* the comparison not true.
AboveMuPlus(value, mu, k, sigma_sq) ==
    /\ ~IsNull(value) /\ ~IsNull(mu) /\ ~IsNull(sigma_sq)
    /\ RGt(RSub(value, mu), R(0))
    /\ RGt(RSq(RSub(value, mu)), RMul(RSq(k), sigma_sq))

BelowMuMinus(value, mu, k, sigma_sq) ==
    /\ ~IsNull(value) /\ ~IsNull(mu) /\ ~IsNull(sigma_sq)
    /\ RLt(RSub(value, mu), R(0))
    /\ RGt(RSq(RSub(value, mu)), RMul(RSq(k), sigma_sq))

\* A variant whose comparisons are not strict.
OutlierGroupInclusive(value, mu, k, sigma_sq) ==
    IF IsNull(value) \/ IsNull(mu) \/ IsNull(sigma_sq) THEN "none"
    ELSE IF RGe(RSub(value, mu), R(0))
            /\ RGe(RSq(RSub(value, mu)), RMul(RSq(k), sigma_sq)) THEN "high"
    ELSE IF RLe(RSub(value, mu), R(0))
            /\ RGe(RSq(RSub(value, mu)), RMul(RSq(k), sigma_sq)) THEN "low"
    ELSE "none"

\* CASE WHEN .. > mu + k*sigma THEN 'high' WHEN .. < mu - k*sigma THEN 'low'
\* ELSE NULL END; "none" stands for the NULL label.
OutlierGroup(value, mu, k, sigma_sq) ==
    IF AboveMuPlus(value, mu, k, sigma_sq) THEN "high"
    ELSE IF BelowMuMinus(value, mu, k, sigma_sq) THEN "low"
    ELSE "none"

\* outlier_days: daily_load JOIN monthly_stats on the day's month.
OutlierDays(dl, ms, k) ==
    {[day_utc |-> x[1].day_utc, month_start |-> x[2].month_start,
      outlier_group |-> OutlierGroup(x[1].daily_avg_mw, x[2].mu, k, x[2].sigma_sq)]
       : x \in {y \in dl \X ms : y[2].month_start = MonthStart(y[1].day_utc)}}

\* The calendar date six hours behind UTC (US Central standard time); the
\* day before the first of a month is kept as day 0 of that month.
DayLocal(t) == IF t.hour >= 6 THEN [month |-> t.month, day |-> t.day]
               ELSE [month |-> t.month, day |-> t.day - 1]

\* A variant that keys the weather by the local date instead of the UTC date.
DailyWeatherLocalDay(weather_rows) ==
    {[day_utc |-> d,
      temp_c_avg |->
          SqlAvg(LET s == SeqOf({r \in weather_rows : DayLocal(r.time) = d})
                 IN  [i \in 1..Len(s) |-> s[i].temperature_2m_c])]
       : d \in {DayLocal(r.time) : r \in weather_rows}}

\* daily_weather: AVG(temperature_2m_c) per UTC day (the humidity,
\* precipitation, wind, pressure and cloud columns are aggregated beside it
\* and not modelled).
DailyWeather(weather_rows) ==
    {[day_utc |-> d,
      temp_c_avg |->
          SqlAvg(LET s == SeqOf({r \in weather_rows : DayUtc(r.time) = d})
                 IN  [i \in 1..Len(s) |-> s[i].temperature_2m_c])]
       : d \in {DayUtc(r.time) : r \in weather_rows}}

\* An optional month or outlier_type parameter that was not passed.
NoMonth == 0
NoType == "any"

\* One output row: COUNT(*) and AVG(dw.temp_c_avg) of a (month_start,
\* outlier_group) group of joined rows.
OutlierReportRow(g, members) ==
    [month_start |-> g[1], outlier_group |-> g[2], num_days |-> Len(members),
     avg_temp_c |-> SqlAvg([j \in 1..Len(members) |-> members[j][2].temp_c_avg])]

\* GROUP BY od.month_start, od.outlier_group ORDER BY od.month_start,
\* od.outlier_group DESC ('low' sorts before 'high').
OutlierReport(joined) ==
    LET groups == {<<x[1].month_start, x[1].outlier_group>> : x \in joined}
        key == [g \in groups |-> 2 * g[1].month + (IF g[2] = "low" THEN 0 ELSE 1)]
        ordered == SortedBy(groups, key)
    IN  [i \in 1..Len(ordered) |->
            OutlierReportRow(ordered[i],
                SeqOf({x \in joined : <<x[1].month_start, x[1].outlier_group>> = ordered[i]}))]

\* outlier_days JOIN daily_weather ON day_utc WHERE the label is not NULL
\* and the optional filters hold.
OutlierJoin(od, dw, start_month, end_month, outlier_type) ==
    {x \in od \X dw :
         /\ x[2].day_utc = x[1].day_utc
         /\ x[1].outlier_group # "none"
         /\ (start_month # NoMonth => x[1].month_start.month >= start_month)
         /\ (end_month # NoMonth => x[1].month_start.month <= end_month)
         /\ (outlier_type # NoType => x[1].outlier_group = outlier_type)}

\* The outlier_days of a daily_load.
LabelDays(dl, k) == OutlierDays(dl, MonthlyStats(dl), k)

\* The whole query.
DailyOutliersQuery(load_rows, weather_rows, start_month, end_month, outlier_type, k) ==
    OutlierReport(OutlierJoin(LabelDays(DailyLoad(load_rows), k),
                              DailyWeather(weather_rows),
                              start_month, end_month, outlier_type))

\* The LoadOutlierWeather response model.
ValidLoadOutlierWeather(row) ==
    /\ row.outlier_group \in {"high", "low"}
    /\ row.num_days >= 0
    /\ ~IsNull(row.avg_temp_c)

\* Query(3.0, ge=1.0, le=5.0) and Optional[Literal["high", "low"]]
ValidOutlierParams(outlier_type, std_dev_threshold) ==
    /\ RGe(std_dev_threshold, R(1))
    /\ RLe(std_dev_threshold, R(5))
    /\ outlier_type \in {NoType, "high", "low"}

\* The handler.  Parameters the Query declarations reject are answered 422
\* before the body runs; the body connects and runs the query with no table
\* check, so a missing table is an exception of cursor.execute; every
\* exception is answered 500.
get_daily_load_outliers(start_month, end_month, outlier_type, std_dev_threshold, fault) ==
    LET ep == "daily_outliers"
        req == [start_month |-> start_month, end_month |-> end_month,
                outlier_type |-> outlier_type,
                std_dev_threshold |-> std_dev_threshold, fault |-> fault]
        k == Query(R(3), std_dev_threshold)
        ok == ercot_load.exists /\ weather_hourly.exists /\ fault = "none"
              /\ ValidOutlierParams(outlier_type, k)
    IN  /\ response = NoResponse
        /\ \E results \in {IF ok THEN DailyOutliersQuery(ercot_load.rows,
                                    weather_hourly.rows, start_month, end_month,
                                    outlier_type, k)
                             ELSE <<>>} :
            response' =
              IF ~ValidOutlierParams(outlier_type, k)
                   THEN Response(ep, req, 422, <<>>, <<>>, FALSE)
              ELSE IF fault = "connect" THEN Response(ep, req, 500, <<>>, <<>>, FALSE)
              ELSE IF ~ok THEN Response(ep, req, 500, <<>>, <<>>, TRUE)
              ELSE IF \A i \in 1..Len(results) : ValidLoadOutlierWeather(results[i])
                   THEN Response(ep, req, 200, results, results, TRUE)
              ELSE Response(ep, req, 500, <<>>, results, TRUE)
        /\ UNCHANGED <<tables, requests, connections>>

\* The outlier_days rows of the request answered (the labels of all days).
AnsweredOutlierDays ==
    LabelDays(DailyLoad(ercot_load.rows), response.request.std_dev_threshold)

MaxDay == 3

\* Hourly load readings: one at hour 0 of each of the first MaxDay days of
\* month 1, a second reading on day 1, and one on day 1 of month 2.
OutlierLoadTimes ==
    {TS(1, d, 0) : d \in 1..MaxDay} \cup {TS(1, 1, 12), TS(2, 1, 0)}
OutlierLoadVals(t) == IF t.hour = 0 THEN {R(0), R(2), R(4)} ELSE {R(4)}

LoadRow(t, coast, east) ==
    [hour_end |-> t, coast |-> coast, east |-> east, ercot |-> RAdd(coast, east)]

OutlierLoadTables ==
    UNION {{Table({LoadRow(t, f[t], R(0)) : t \in T})
              : f \in {g \in [T -> {R(0), R(2), R(4)}] :
                          \A t \in T : g[t] \in OutlierLoadVals(t)}}
           : T \in SUBSET OutlierLoadTimes}

WeatherRow(t, station, temp) ==
    [time |-> t, station_id |-> station, temperature_2m_c |-> temp]

\* Weather readings of station 1 on the given days, 20 C plus the day number.
WeatherOn(days) == Table({WeatherRow(TS(d.month, d.day, 0), 1, R(20 + d.day)) : d \in days})

OutlierDaysOfData == {DayUtc(t) : t \in OutlierLoadTimes}

OutlierWeatherTables ==
    {WeatherOn(OutlierDaysOfData), WeatherOn(OutlierDaysOfData \ {DayUtc(TS(1, 1, 0))}),
     WeatherOn({})}

\* std_dev_threshold values: 1, 3/2 and the default 3 are accepted, 1/2 and
\* 6 are outside [1, 5].
Thresholds == {R(1), <<3, 2>>, R(3), <<1, 2>>, R(6)}

DailyOutliersRequest ==
    \/ \E k \in Thresholds : get_daily_load_outliers(NoMonth, NoMonth, NoType, k, "none")
    \/ \E s \in {NoMonth, 2}, e \in {NoMonth, 1}, t \in {NoType, "high", "low"} :
          get_daily_load_outliers(s, e, t, R(1), "none")
    \/ \E f \in {"connect", "query"} :
          get_daily_load_outliers(NoMonth, NoMonth, NoType, R(3), f)

InitOutliers ==
    /\ ercot_load_wide_compare = NoTable
    /\ \/ /\ ercot_load \in OutlierLoadTables
          /\ weather_hourly \in OutlierWeatherTables
       \/ /\ ercot_load = NoTable
          /\ weather_hourly = NoTable
    /\ station_zone_map = NoTable
    /\ extreme_heat_load = NoTable
    /\ heatwave_streaks = NoTable
    /\ ercot_load_wide_expected = NoTable
    /\ precipitation_impact = NoTable
    /\ load_outlier_weather = NoTable
    /\ response = NoResponse
    /\ requests = NoRequests
    /\ connections = <<>>

NextOutliers == DailyOutliersRequest \/ Deliver

SpecOutliers == InitOutliers /\ [][NextOutliers]_vars

-----------------------------------------------------------------------------
(* Properties of GET /load/daily-outliers.                                 *)

\* A request whose query ran.
OutliersAnswered ==
    /\ response.endpoint = "daily_outliers"
    /\ response.request.fault = "none"
    /\ response.status # 422
    /\ ercot_load.exists /\ weather_hourly.exists

\* The days that have load readings, and a day's value: the mean of its
\* hourly ercot readings.
LoadDays == {DayUtc(r.hour_end) : r \in ercot_load.rows}
DayValue(d) ==
    LET rs == {r \in ercot_load.rows : DayUtc(r.hour_end) = d}
    IN  MeanOver(rs, [r \in rs |-> r.ercot])
DaysOfMonth(m) == {d \in LoadDays : d.month = m}
LoadMonths == {d.month : d \in LoadDays}

\* A month's daily values val, their mean mu and the sum sq_dev of their
\* squared deviations from it ((n - 1) * sigma^2), each computed once.
MonthStatsOf(m) ==
    LET val == [d \in DaysOfMonth(m) |-> DayValue(d)]
        WithMean(mu) ==
            [val |-> val, mu |-> mu,
             sq_dev |-> SumOver(DOMAIN val, [d \in DOMAIN val |-> RSq(RSub(val[d], mu))])]
    IN  CHOOSE st \in {WithMean(MeanOver(DOMAIN val, val))} : TRUE

\* |value - mu| > k * sigma for the sample standard deviation sigma of the
\* month st, which needs at least 2 daily values.
BeyondKSigma(st, d, k) ==
    LET n == Cardinality(DOMAIN st.val)
    IN  /\ n >= 2
        /\ RGt(RMul(RSq(RSub(st.val[d], st.mu)), R(n - 1)), RMul(RSq(k), st.sq_dev))

\* C6: for every day, with mu and sigma the mean and sample standard
\* deviation of the daily values of the day's month, the label is high
\* exactly when value > mu + k*sigma, low exactly when value < mu - k*sigma,
\* and none otherwise; a value equal to mu + k*sigma or mu - k*sigma is none.
C6_LabelByStrictKSigma ==
    OutliersAnswered =>
        \A stats \in {[m \in LoadMonths |-> MonthStatsOf(m)]},
           labels \in {AnsweredOutlierDays} :
            /\ {od.day_utc : od \in labels} = LoadDays
            /\ \A od \in labels :
                  LET d == od.day_utc
                      st == stats[d.month]
                      k == response.request.std_dev_threshold
                  IN  od.outlier_group =
                        IF RGt(st.val[d], st.mu) /\ BeyondKSigma(st, d, k) THEN "high"
                        ELSE IF RLt(st.val[d], st.mu) /\ BeyondKSigma(st, d, k) THEN "low"
                        ELSE "none"

\* A month with a day labelled high, reported as (month, high, 1), beside a
\* day of the same month labelled none.
C6_Witness ==
    /\ OutliersAnswered
    /\ response.status = 200
    /\ \E hi, no \in AnsweredOutlierDays :
          /\ hi.outlier_group = "high"
          /\ no.outlier_group = "none"
          /\ hi.month_start = no.month_start
          /\ \E i \in 1..Len(response.rows) :
                /\ response.rows[i].month_start = hi.month_start
                /\ response.rows[i].outlier_group = "high"
                /\ response.rows[i].num_days = 1

\* A month without a defined, positive sigma: fewer than 2 daily values, or
\* daily values all equal.
FlatMonth(m) ==
    \A val \in {[d \in DaysOfMonth(m) |-> DayValue(d)]} :
        \/ Cardinality(DOMAIN val) < 2
        \/ \A d1, d2 \in DOMAIN val : val[d1] = val[d2]

\* C7: for every month with fewer than 2 daily values or with all daily
\* values equal, every day of the month is labelled none whatever k is, and
\* the month has no high and no low row in the output.
C7_FlatMonthHasNoOutliers ==
    OutliersAnswered =>
        \A labels \in {AnsweredOutlierDays} :
            \A m \in LoadMonths :
                FlatMonth(m) =>
                    /\ \A od \in labels :
                          od.month_start.month = m => od.outlier_group = "none"
                    /\ \A i \in 1..Len(response.sql) :
                          response.sql[i].month_start.month # m

\* A month of one day beside a month of several equal, non-zero days, in a
\* request answered 200 while another day's weather exists.
C7_Witness ==
    /\ OutliersAnswered
    /\ response.status = 200
    /\ weather_hourly.rows # {}
    /\ \E m1, m2 \in LoadMonths :
          /\ Cardinality(DaysOfMonth(m1)) = 1
          /\ Cardinality(DaysOfMonth(m2)) >= 2
          /\ FlatMonth(m2)
          /\ \A d \in DaysOfMonth(m1) \cup DaysOfMonth(m2) : DayValue(d) # R(0)

-----------------------------------------------------------------------------
(* GET /load/extreme-heat-analysis and GET /load/peak-load-extreme-heat    *)

\* The zones of the VALUES list of daily_peak_load in ORDER BY zone_code
\* order (the code lists eight; two are modelled).
ZoneOrder == <<"coast", "east">>
Zones == {ZoneOrder[i] : i \in 1..Len(ZoneOrder)}

\* (temperature_2m_c * 9.0/5.0) + 32.0
CToF(c) == RAdd(RMul(c, <<9, 5>>), R(32))

\* weather_zone_daily: MAX of the Fahrenheit temperature per UTC day and
\* zone, over weather_hourly JOIN station_zone_map ON station_id.
WeatherZoneDaily(weather_rows, map_rows) ==
    LET joined == {x \in weather_rows \X map_rows : x[2].station_id = x[1].station_id}
        Temps(of) == LET s == SeqOf(of)
                     IN  [i \in 1..Len(s) |-> CToF(s[i][1].temperature_2m_c)]
    IN  {[day_utc |-> g[1], zone_code |-> g[2],
          temp_max_f |-> SqlMax(Temps({x \in joined :
                                 DayUtc(x[1].time) = g[1] /\ x[2].zone_code = g[2]}))]
           : g \in {<<DayUtc(x[1].time), x[2].zone_code>> : x \in joined}}

\* daily_peak_load: MAX of each zone's load column per UTC day.
DailyPeakLoad(load_rows) ==
    {[day_utc |-> g[1], zone_code |-> g[2],
      daily_peak_mw |->
          SqlMax(LET s == SeqOf({r \in load_rows : DayUtc(r.hour_end) = g[1]})
                 IN  [i \in 1..Len(s) |-> s[i][g[2]]])]
       : g \in {DayUtc(r.hour_end) : r \in load_rows} \X Zones}

\* A variant that takes the nearest lower order statistic, with no
\* interpolation.
PercentileDisc(fraction, values) ==
    IF NonNull(values) = <<>> THEN Null
    ELSE SortAsc(NonNull(values))[Floor(RMul(fraction, R(Len(NonNull(values)) - 1))) + 1]

\* The result for sorted values v and fractional rank r = fraction * (n - 1).
Interpolate(v, r) ==
    IF Floor(r) = Ceil(r) THEN v[Floor(r) + 1]
    ELSE RAdd(v[Floor(r) + 1],
              RMul(RSub(r, R(Floor(r))), RSub(v[Ceil(r) + 1], v[Floor(r) + 1])))

\* percentile_cont(fraction) WITHIN GROUP (ORDER BY value): NULL inputs are
\* ignored; linear interpolation between the order statistics around
\* fraction * (n - 1); NULL for no input.
PercentileCont(fraction, values) ==
    IF NonNull(values) = <<>> THEN Null
    ELSE Interpolate(SortAsc(NonNull(values)),
                     RMul(fraction, R(Len(NonNull(values)) - 1)))

\* hot_cutoff: the percentile of temp_max_f per zone.
HotCutoff(wzd, fraction) ==
    {[zone_code |-> z,
      p_threshold_temp_f |->
          PercentileCont(fraction,
                         LET s == SeqOf({x \in wzd : x.zone_code = z})
                         IN  [i \in 1..Len(s) |-> s[i].temp_max_f])]
       : z \in {x.zone_code : x \in wzd}}

\* A variant whose test is strict.
IsExtremeStrict(temp_max_f, threshold) == RGt(temp_max_f, threshold)

\* WHERE wzd.temp_max_f >= hc.p_threshold_temp_f
IsExtreme(temp_max_f, threshold) == RGe(temp_max_f, threshold)

\* weather_zone_daily JOIN hot_cutoff USING (zone_code) JOIN daily_peak_load
\* USING (zone_code, day_utc) WHERE the day is extreme and the optional zone
\* filter holds.  zone is the list the parameter splits into; <<>> is the
\* parameter omitted or empty.
ExtremeJoin(wzd, hc, dpl, zone) ==
    {x \in wzd \X hc \X dpl :
        /\ x[2].zone_code = x[1].zone_code
        /\ x[3].zone_code = x[1].zone_code
        /\ x[3].day_utc = x[1].day_utc
        /\ IsExtreme(x[1].temp_max_f, x[2].p_threshold_temp_f)
        /\ (zone # <<>> => \E i \in 1..Len(zone) : zone[i] = x[1].zone_code)}

\* One output row of a (zone_code, p_threshold_temp_f) group.
ExtremeReportRow(z, members, percentile_threshold) ==
    [zone_code |-> z,
     median_peak_load_mw |->
         PercentileCont(<<1, 2>>, [j \in 1..Len(members) |-> members[j][3].daily_peak_mw]),
     num_extreme_heat_days |-> Len(members),
     threshold_percentile |-> percentile_threshold,
     threshold_temp_f |-> members[1][2].p_threshold_temp_f]

\* GROUP BY wzd.zone_code, hc.p_threshold_temp_f ORDER BY wzd.zone_code
ExtremeReport(joined, percentile_threshold) ==
    LET zs == SelectSeq(ZoneOrder, LAMBDA z : \E x \in joined : x[1].zone_code = z)
    IN  [i \in 1..Len(zs) |->
            ExtremeReportRow(zs[i], SeqOf({x \in joined : x[1].zone_code = zs[i]}),
                             percentile_threshold)]

\* The hot_cutoff of the data for a percentile.
CutoffOf(wzd, percentile_threshold) ==
    HotCutoff(wzd, RDiv(percentile_threshold, R(100)))

ExtremeOf(wzd, dpl, zone, percentile_threshold) ==
    ExtremeReport(ExtremeJoin(wzd, CutoffOf(wzd, percentile_threshold), dpl, zone),
                  percentile_threshold)

\* The whole query, with params [(percentile_threshold / 100.0),
\* percentile_threshold].
ExtremeHeatQuery(weather_rows, map_rows, load_rows, zone, percentile_threshold) ==
    ExtremeOf(WeatherZoneDaily(weather_rows, map_rows), DailyPeakLoad(load_rows),
              zone, percentile_threshold)

\* The ExtremeHeatLoad response model.
ValidExtremeHeatLoad(row) ==
    /\ ~IsNull(row.median_peak_load_mw)
    /\ row.num_extreme_heat_days >= 0
    /\ RGe(row.threshold_percentile, R(0))
    /\ RLe(row.threshold_percentile, R(100))
    /\ ~IsNull(row.threshold_temp_f)

\* A variant that declares ge=0.
ValidPercentileThresholdFromZero(p) == RGe(p, R(0)) /\ RLe(p, R(100))

\* Query(99.0, ge=50, le=100) of percentile_threshold
ValidPercentileThreshold(p) == RGe(p, R(50)) /\ RLe(p, R(100))

\* Query(99, ge=0, le=100) of threshold
ValidThreshold(p) == RGe(p, R(0)) /\ RLe(p, R(100))

\* The handler of /load/extreme-heat-analysis: 422 for a percentile the Query
\* declaration rejects, then connect, check the three tables exist (501),
\* run the query and return the rows through List[ExtremeHeatLoad].
get_extreme_heat_load_analysis(zone, percentile_threshold, fault) ==
    LET ep == "extreme_heat_analysis"
        req == [zone |-> zone, percentile_threshold |-> percentile_threshold,
                fault |-> fault]
        tables_exist == weather_hourly.exists /\ station_zone_map.exists
                        /\ ercot_load.exists
        p == Query(R(99), percentile_threshold)
        ok == tables_exist /\ fault = "none" /\ ValidPercentileThreshold(p)
    IN  /\ response = NoResponse
        /\ \E results \in {IF ok THEN ExtremeHeatQuery(weather_hourly.rows,
                                    station_zone_map.rows, ercot_load.rows,
                                    zone, p)
                             ELSE <<>>} :
            response' =
              IF ~ValidPercentileThreshold(p)
                   THEN Response(ep, req, 422, <<>>, <<>>, FALSE)
              ELSE IF fault = "connect" THEN Response(ep, req, 500, <<>>, <<>>, FALSE)
              ELSE IF fault = "check" THEN Response(ep, req, 500, <<>>, <<>>, TRUE)
              ELSE IF ~tables_exist THEN Response(ep, req, 501, <<>>, <<>>, TRUE)
              ELSE IF fault = "query" THEN Response(ep, req, 500, <<>>, <<>>, TRUE)
              ELSE IF \A i \in 1..Len(results) : ValidExtremeHeatLoad(results[i])
                   THEN Response(ep, req, 200, results, results, TRUE)
              ELSE Response(ep, req, 500, <<>>, results, TRUE)
        /\ UNCHANGED <<tables, requests, connections>>

\* An optional zone parameter that was not passed.
NoZone == "any"

\* Every enumeration of a finite set in ascending order of an integer key:
\* ORDER BY leaves the order of rows with equal keys unspecified.
RECURSIVE Orderings(_, _)
Orderings(S, key) ==
    IF S = {} THEN {<<>>}
    ELSE UNION {{<<x>> \o t : t \in Orderings(S \ {x}, key)}
                  : x \in {y \in S : \A z \in S : key[y] <= key[z]}}

\* The columns the query selects.
PeakLoadColumns(r) ==
    [zone_code |-> r.zone_code,
     median_peak_load_mw |-> r.median_peak_load_mw,
     num_extreme_heat_days |-> r.num_extreme_heat_days,
     threshold_percentile |-> r.threshold_percentile,
     threshold_temp_f |-> r.threshold_temp_f]

\* SELECT .. FROM extreme_heat_load WHERE threshold_percentile = %s [AND
\* zone_code = %s] [AND date >= %s] [AND date <= %s] ORDER BY zone_code: the
\* result sequences the database may return.
PeakLoadQuery(rows, zone, start_date, end_date, threshold) ==
    LET sel == {r \in rows :
                  /\ r.threshold_percentile = threshold
                  /\ (zone # NoZone => r.zone_code = zone)
                  /\ (start_date # NoDate => r.date >= start_date)
                  /\ (end_date # NoDate => r.date <= end_date)}
        key == [r \in sel |-> CHOOSE i \in 1..Len(ZoneOrder) : ZoneOrder[i] = r.zone_code]
    IN  {[i \in 1..Len(ordered) |-> PeakLoadColumns(ordered[i])]
           : ordered \in Orderings(sel, key)}

\* The handler of /load/peak-load-extreme-heat.
get_peak_load_extreme_heat(zone, start_date, end_date, threshold, fault) ==
    LET ep == "peak_load_extreme_heat"
        req == [zone |-> zone, start_date |-> start_date, end_date |-> end_date,
                threshold |-> threshold, fault |-> fault]
        p == Query(R(99), threshold)
        ok == extreme_heat_load.exists /\ fault = "none" /\ ValidThreshold(p)
    IN  /\ response = NoResponse
        /\ \E results \in (IF ok THEN PeakLoadQuery(extreme_heat_load.rows, zone,
                                                    start_date, end_date, p)
                             ELSE {<<>>}) :
            response' =
              IF ~ValidThreshold(p)
                   THEN Response(ep, req, 422, <<>>, <<>>, FALSE)
              ELSE IF fault = "connect" THEN Response(ep, req, 500, <<>>, <<>>, FALSE)
              ELSE IF fault = "check" THEN Response(ep, req, 500, <<>>, <<>>, TRUE)
              ELSE IF ~extreme_heat_load.exists
                   THEN Response(ep, req, 501, <<>>, <<>>, TRUE)
              ELSE IF fault = "query" THEN Response(ep, req, 500, <<>>, <<>>, TRUE)
              ELSE IF \A i \in 1..Len(results) : ValidExtremeHeatLoad(results[i])
                   THEN Response(ep, req, 200, results, results, TRUE)
              ELSE Response(ep, req, 500, <<>>, results, TRUE)
        /\ UNCHANGED <<tables, requests, connections>>

\* Weather readings: station 1 (coast) at hour 0 of each of the first MaxDay
\* days of month 1, 25 C or 35 C; station 2 (east) on day 1, 30 C.
HeatWeatherTimes == {TS(1, d, 0) : d \in 1..MaxDay}
HeatWeatherTables ==
    UNION {{Table({WeatherRow(t, 1, f[t]) : t \in T} \cup e)
              : f \in [T -> {R(25), R(35)}], e \in {{}, {WeatherRow(TS(1, 1, 0), 2, R(30))}}}
           : T \in SUBSET HeatWeatherTimes}

StationZoneMap ==
    Table({[station_id |-> 1, zone_code |-> "coast"],
           [station_id |-> 2, zone_code |-> "east"]})

\* Load readings at hour 0 of the same days: coast 10 or 20 (or NULL on day
\* 1), east 10.
HeatLoadVals(t) == IF t.day = 1 THEN {Null, R(10), R(20)} ELSE {R(10), R(20)}
HeatLoadTables ==
    UNION {{Table({LoadRow(t, f[t], R(10)) : t \in T})
              : f \in {g \in [T -> {Null, R(10), R(20)}] :
                          \A t \in T : g[t] \in HeatLoadVals(t)}}
           : T \in SUBSET HeatWeatherTimes}

\* The precomputed extreme_heat_load table: absent, empty, or holding rows
\* for the 25th and the 99th percentile, two of them for coast at the 99th
\* on different dates.
PeakRow(zone, date, p) ==
    [zone_code |-> zone, date |-> date, median_peak_load_mw |-> R(20 * date),
     num_extreme_heat_days |-> 1, threshold_percentile |-> p,
     threshold_temp_f |-> R(95)]
ExtremeHeatLoadTables ==
    {NoTable, Table({}),
     Table({PeakRow("east", 1, R(99)), PeakRow("coast", 2, R(99)),
            PeakRow("coast", 1, R(99)), PeakRow("coast", 1, R(25))})}

\* percentile values: 50, 75 and 100 are accepted by both endpoints, 25 by
\* /load/peak-load-extreme-heat only, 101 and -1 by neither.
Percentiles == {R(50), R(75), R(100), R(25), R(101), R(-1)}

ExtremeHeatRequest ==
    \/ \E z \in {<<>>, <<"coast">>}, p \in Percentiles :
          get_extreme_heat_load_analysis(z, p, "none")
    \/ \E f \in DbFaults \ {"none"} :
          get_extreme_heat_load_analysis(<<>>, R(99), f)

PeakLoadRequest ==
    \/ \E p \in Percentiles \cup {R(99)} :
          get_peak_load_extreme_heat(NoZone, NoDate, NoDate, p, "none")
    \/ \E z \in {NoZone, "coast"}, s \in {NoDate, 2}, e \in {NoDate, 1} :
          get_peak_load_extreme_heat(z, s, e, R(99), "none")
    \/ \E f \in DbFaults \ {"none"} :
          get_peak_load_extreme_heat(NoZone, NoDate, NoDate, R(99), f)

InitHeat ==
    /\ ercot_load_wide_compare = NoTable
    /\ heatwave_streaks = NoTable
    /\ \/ /\ weather_hourly \in HeatWeatherTables
          /\ station_zone_map = StationZoneMap
          /\ ercot_load \in HeatLoadTables
          /\ extreme_heat_load = NoTable
       \/ /\ weather_hourly = NoTable
          /\ station_zone_map = NoTable
          /\ ercot_load = NoTable
          /\ extreme_heat_load \in ExtremeHeatLoadTables
    /\ ercot_load_wide_expected = NoTable
    /\ precipitation_impact = NoTable
    /\ load_outlier_weather = NoTable
    /\ response = NoResponse
    /\ requests = NoRequests
    /\ connections = <<>>

NextHeat == ExtremeHeatRequest \/ PeakLoadRequest \/ Deliver

SpecHeat == InitHeat /\ [][NextHeat]_vars

-----------------------------------------------------------------------------
(* Properties of the two extreme-heat endpoints                            *)

HeatAnswered ==
    /\ response.endpoint = "extreme_heat_analysis"
    /\ response.status = 200

\* The daily maxima and daily peaks of the stored data.
AnsweredWzd == WeatherZoneDaily(weather_hourly.rows, station_zone_map.rows)
AnsweredDpl == DailyPeakLoad(ercot_load.rows)

\* The daily maximum temperatures of a zone, one per day.
ZoneTemps(wzd, z) ==
    LET s == SeqOf({x \in wzd : x.zone_code = z})
    IN  [i \in 1..Len(s) |-> s[i].temp_max_f]

\* The daily peaks of a zone on the days whose maximum is at or above thr.
ExtremePeaks(wzd, dpl, z, thr) ==
    LET s == SeqOf({d \in dpl :
                      /\ d.zone_code = z
                      /\ \E w \in wzd : /\ w.zone_code = z
                                        /\ w.day_utc = d.day_utc
                                        /\ RGe(w.temp_max_f, thr)})
    IN  NonNull([i \in 1..Len(s) |-> s[i].daily_peak_mw])

\* v[i-1] of the values sorted ascending: the value with fewer than i values
\* below it and at least i values at or below it.
NthSmallest(values, i) ==
    CHOOSE x \in {values[j] : j \in 1..Len(values)} :
        /\ Cardinality({j \in 1..Len(values) : RLt(values[j], x)}) < i
        /\ Cardinality({j \in 1..Len(values) : RLe(values[j], x)}) >= i

\* v[floor(r)] + (r - floor(r)) * (v[ceil(r)] - v[floor(r)]), r = p/100 * (n-1)
InterpolatedPercentile(values, p) ==
    LET n == Len(values)
        r == RDiv(RMul(p, R(n - 1)), R(100))
        fl == CHOOSE k \in 0..(n - 1) : RLe(R(k), r) /\ RLt(r, R(k + 1))
        ce == CHOOSE k \in 0..(n - 1) : RLt(R(k - 1), r) /\ RLe(r, R(k))
    IN  RAdd(NthSmallest(values, fl + 1),
             RMul(RSub(r, R(fl)),
                  RSub(NthSmallest(values, ce + 1), NthSmallest(values, fl + 1))))

\* Lists of one to four values out of 1..4, and percentiles across [0,100].
SampleLists == UNION {[1..n -> {R(1), R(2), R(3), R(4)}] : n \in 1..4}
SamplePercentiles == {R(0), R(10), R(25), R(50), R(75), R(99), R(100)}

\* percentile_cont agrees with the interpolation formula on the samples, and
\* gives 2.5 for [1,2,3,4] at p = 50.
PercentileContInterpolates ==
    /\ \A values \in SampleLists, p \in SamplePercentiles :
          PercentileCont(RDiv(p, R(100)), values) = InterpolatedPercentile(values, p)
    /\ PercentileCont(<<1, 2>>, <<R(1), R(2), R(3), R(4)>>) = <<5, 2>>
    /\ \A j \in 1..4 : R(j) # <<5, 2>>

\* C8: percentile_cutoff interpolates linearly: for sorted values v[0..n-1]
\* and p in [0,100] the result is v[floor(r)] + (r - floor(r)) * (v[ceil(r)] -
\* v[floor(r)]) with r = p/100 * (n-1), and for [1,2,3,4] at p = 50 it is 2.5;
\* in every answer of /load/extreme-heat-analysis threshold_temp_f is that
\* value over the zone's daily maxima at the requested percentile and
\* median_peak_load_mw is that value at p = 50 over the peaks of the extreme
\* days.
C8_PercentileInterpolates ==
    /\ PercentileContInterpolates
    /\ HeatAnswered =>
          \A wzd \in {AnsweredWzd}, dpl \in {AnsweredDpl} :
             \A i \in 1..Len(response.rows) :
                LET row == response.rows[i]
                IN  /\ row.threshold_temp_f =
                          InterpolatedPercentile(ZoneTemps(wzd, row.zone_code),
                                                 response.request.percentile_threshold)
                    /\ row.median_peak_load_mw =
                          InterpolatedPercentile(
                              ExtremePeaks(wzd, dpl, row.zone_code, row.threshold_temp_f),
                              R(50))

\* An answer whose threshold lies strictly between two daily maxima of the
\* zone: it is none of the zone's values.
C8_Witness ==
    /\ HeatAnswered
    /\ \E i \in 1..Len(response.rows) :
          LET row == response.rows[i]
              temps == ZoneTemps(AnsweredWzd, row.zone_code)
          IN  /\ \A j \in 1..Len(temps) : temps[j] # row.threshold_temp_f
              /\ \E j \in 1..Len(temps) : RLt(temps[j], row.threshold_temp_f)
              /\ \E j \in 1..Len(temps) : RGt(temps[j], row.threshold_temp_f)

\* An answer whose median lies strictly between the peaks of two extreme days.
MedianInterpolated ==
    /\ HeatAnswered
    /\ \E i \in 1..Len(response.rows) :
          LET row == response.rows[i]
              peaks == ExtremePeaks(AnsweredWzd, AnsweredDpl, row.zone_code,
                                    row.threshold_temp_f)
          IN  \A j \in 1..Len(peaks) : peaks[j] # row.median_peak_load_mw

\* A request to one of the two endpoints that take a percentile was answered.
PercentileAnswered ==
    response.endpoint \in {"extreme_heat_analysis", "peak_load_extreme_heat"}

\* The percentile the answered request carried.
AnsweredPercentile ==
    IF response.endpoint = "extreme_heat_analysis"
    THEN response.request.percentile_threshold
    ELSE response.request.threshold

\* The request was rejected as invalid before anything ran: no connection,
\* no query.
RejectedBeforeComputation ==
    /\ response.status = 422
    /\ ~response.connected
    /\ response.sql = <<>>
    /\ response.rows = <<>>

\* C9: both operations that take a percentile accept every p with
\* 0 <= p <= 100 and reject every p outside [0,100] with an invalid-parameter
\* error before any computation runs.
C9_PercentileDomainZeroToHundred ==
    PercentileAnswered =>
        IF RGe(AnsweredPercentile, R(0)) /\ RLe(AnsweredPercentile, R(100))
        THEN response.status # 422
        ELSE RejectedBeforeComputation

\* C9 (amended): /load/peak-load-extreme-heat accepts exactly the p with
\* 0 <= p <= 100 and /load/extreme-heat-analysis exactly the p with
\* 50 <= p <= 100; each rejects every other p with an invalid-parameter
\* error (422) before any computation runs.
C9_PercentileDomainPerEndpoint ==
    PercentileAnswered =>
        LET lowest == IF response.endpoint = "extreme_heat_analysis" THEN 50 ELSE 0
        IN  IF RGe(AnsweredPercentile, R(lowest)) /\ RLe(AnsweredPercentile, R(100))
            THEN response.status # 422
            ELSE RejectedBeforeComputation

\* /load/extreme-heat-analysis rejected a percentile inside [0,100].
C9_Witness ==
    /\ response.endpoint = "extreme_heat_analysis"
    /\ RGe(AnsweredPercentile, R(0))
    /\ RLt(AnsweredPercentile, R(50))
    /\ RejectedBeforeComputation

\* The zones the answered request asked for.
ZoneRequested(z) ==
    response.request.zone # <<>> =>
        \E i \in 1..Len(response.request.zone) : response.request.zone[i] = z

\* The days of a zone whose daily maximum is at or above the zone's own
\* percentile threshold.
QualifyingDays(wzd, z, p) ==
    {w.day_utc : w \in {x \in wzd :
        /\ x.zone_code = z
        /\ RGe(x.temp_max_f, InterpolatedPercentile(ZoneTemps(wzd, z), p))}}

\* C10: a day of a zone is counted as extreme exactly when its daily maximum
\* temperature is >= the zone's own percentile threshold (a day equal to the
\* threshold is counted), and num_extreme_heat_days equals the number of the
\* zone's days meeting that test.
C10_CountsDaysAtOrAboveThreshold ==
    HeatAnswered =>
        \A wzd \in {AnsweredWzd} :
           \A z \in {x.zone_code : x \in wzd} :
              ZoneRequested(z) =>
                 \E i \in 1..Len(response.rows) :
                    /\ response.rows[i].zone_code = z
                    /\ response.rows[i].num_extreme_heat_days =
                          Cardinality(QualifyingDays(wzd, z,
                              response.request.percentile_threshold))

\* The same count restricted to the days that also have a row in
\* daily_peak_load, which is what the inner JOIN leaves.
CountsQualifyingDaysWithLoad ==
    HeatAnswered =>
        \A wzd \in {AnsweredWzd}, dpl \in {AnsweredDpl} :
           \A i \in 1..Len(response.rows) :
              response.rows[i].num_extreme_heat_days =
                 Cardinality({d \in QualifyingDays(wzd, response.rows[i].zone_code,
                                       response.request.percentile_threshold) :
                                \E l \in dpl : l.day_utc = d})

\* A valid request to /load/extreme-heat-analysis ran its query.
HeatComputed ==
    /\ response.endpoint = "extreme_heat_analysis"
    /\ response.request.fault = "none"
    /\ response.status \in {200, 500}

\* C11: when no day of a zone contributes to the median (no qualifying day
\* with a peak-load value), the zone's median_peak_load_mw is reported as
\* null or the zone is absent from the result; it is never reported as 0 and
\* never reported with num_extreme_heat_days > 0.
C11_NoContributingDayIsNullOrAbsent ==
    HeatComputed =>
        \A wzd \in {AnsweredWzd}, dpl \in {AnsweredDpl} :
           \A z \in {x.zone_code : x \in wzd} :
              (/\ ZoneRequested(z)
               /\ ExtremePeaks(wzd, dpl, z,
                      InterpolatedPercentile(ZoneTemps(wzd, z),
                          response.request.percentile_threshold)) = <<>>)
              => /\ response.status = 200
                 /\ \A i \in 1..Len(response.rows) :
                       response.rows[i].zone_code = z =>
                          /\ IsNull(response.rows[i].median_peak_load_mw)
                          /\ response.rows[i].num_extreme_heat_days = 0
                 /\ \A i \in 1..Len(response.sql) :
                       response.sql[i].zone_code = z =>
                          response.sql[i].num_extreme_heat_days = 0

-----------------------------------------------------------------------------
(* GET /weather/heatwaves                                                  *)

\* The number of a calendar day, so that consecutive days differ by one (the
\* modelled days lie in one 31-day month).
DayNumber(d) == 31 * (d.month - 1) + d.day

\* The daily values of one zone in ascending day order.
ZoneDaily(wzd, z) ==
    LET S == {x \in wzd : x.zone_code = z}
    IN  SortedBy(S, [x \in S |-> DayNumber(x.day_utc)])

\* The predicate of the precomputed streaks: the day's value reaches the
\* threshold.
Satisfies(value, threshold) == RGe(value, threshold)

\* A variant that extends a run across a missing day.
ExtendsIgnoringGaps(run, d) == run # <<>>

\* day[i] extends the active run only when day[i] = day[i-1] + 1.
Extends(run, d) ==
    /\ run # <<>>
    /\ DayNumber(d.day_utc) = DayNumber(run[Len(run)].day_utc) + 1

\* Closing a run emits it only if its length is >= min_length.
CloseRun(run, out, min_length) ==
    IF run # <<>> /\ Len(run) >= min_length THEN Append(out, run) ELSE out

\* The scan of detect_streaks from position i with the active run and the
\* runs emitted so far.
RECURSIVE StreakScan(_, _, _, _, _, _)
StreakScan(days, i, run, out, threshold, min_length) ==
    IF i > Len(days) THEN CloseRun(run, out, min_length)
    ELSE IF Satisfies(days[i].temp_max_f, threshold)
         THEN IF Extends(run, days[i])
              THEN StreakScan(days, i + 1, Append(run, days[i]), out,
                              threshold, min_length)
              ELSE StreakScan(days, i + 1, <<days[i]>>,
                              CloseRun(run, out, min_length), threshold, min_length)
         ELSE StreakScan(days, i + 1, <<>>, CloseRun(run, out, min_length),
                         threshold, min_length)

\* detect_streaks(daily_values, predicate, min_length): the runs, each a
\* sequence of daily values.
DetectStreaks(daily_values, threshold, min_length) ==
    StreakScan(daily_values, 1, <<>>, <<>>, threshold, min_length)

\* The Streak of a run: peak_value is the maximum within the run, aux_value
\* the average daily peak load over [start_day, end_day].
StreakRow(z, run, dpl) ==
    [zone_code |-> z,
     streak_start |-> run[1].day_utc,
     streak_end |-> run[Len(run)].day_utc,
     streak_days |-> Len(run),
     max_temp_f |-> SqlMax([i \in 1..Len(run) |-> run[i].temp_max_f]),
     avg_peak_load_mw |->
         SqlAvg(LET s == SeqOf({l \in dpl :
                           /\ l.zone_code = z
                           /\ DayNumber(l.day_utc) >= DayNumber(run[1].day_utc)
                           /\ DayNumber(l.day_utc) <= DayNumber(run[Len(run)].day_utc)})
                IN  [i \in 1..Len(s) |-> s[i].daily_peak_mw])]

\* The streaks of one zone.
ZoneStreaks(wzd, dpl, z, threshold, min_length) ==
    LET runs == DetectStreaks(ZoneDaily(wzd, z), threshold, min_length)
    IN  {StreakRow(z, runs[i], dpl) : i \in 1..Len(runs)}

\* The rows of heatwave_streaks: one detect_streaks call per zone over the
\* zone's daily maximum temperatures.
HeatwaveStreaksOf(wzd, dpl, threshold, min_length) ==
    UNION {ZoneStreaks(wzd, dpl, z, threshold, min_length)
             : z \in {x.zone_code : x \in wzd}}

HeatwaveStreaksRows(weather_rows, map_rows, load_rows, threshold, min_length) ==
    HeatwaveStreaksOf(WeatherZoneDaily(weather_rows, map_rows),
                      DailyPeakLoad(load_rows), threshold, min_length)

\* A variant whose test on the length is strict.
LongEnoughStrict(streak_days, min_days) == streak_days > min_days

\* streak_days >= %s
LongEnough(streak_days, min_days) == streak_days >= min_days

\* max_temp_f >= %s
HotEnough(max_temp_f, min_temp_f) == RGe(max_temp_f, min_temp_f)

\* A variant that orders each zone's streaks by descending start.
StreakOrderKeyDescending(r) ==
    1000 * (CHOOSE i \in 1..Len(ZoneOrder) : ZoneOrder[i] = r.zone_code)
        - DayNumber(r.streak_start)

\* ORDER BY zone_code, streak_start
StreakOrderKey(r) ==
    1000 * (CHOOSE i \in 1..Len(ZoneOrder) : ZoneOrder[i] = r.zone_code)
        + DayNumber(r.streak_start)

\* SELECT .. FROM heatwave_streaks WHERE max_temp_f >= %s AND streak_days >=
\* %s [AND zone_code = ANY(%s)] [AND streak_start >= %s] [AND streak_end <=
\* %s] ORDER BY zone_code, streak_start.  Dates are day numbers.
HeatwaveQuery(rows, zone, min_temp_f, min_days, start_date, end_date) ==
    LET sel == {r \in rows :
                  /\ HotEnough(r.max_temp_f, min_temp_f)
                  /\ LongEnough(r.streak_days, min_days)
                  /\ (zone # <<>> => \E i \in 1..Len(zone) : zone[i] = r.zone_code)
                  /\ (start_date # NoDate => DayNumber(r.streak_start) >= start_date)
                  /\ (end_date # NoDate => DayNumber(r.streak_end) <= end_date)}
    IN  SortedBy(sel, [r \in sel |-> StreakOrderKey(r)])

\* The HeatwaveStreak response model.
ValidHeatwaveStreak(row) ==
    /\ row.streak_days >= 1
    /\ ~IsNull(row.max_temp_f)
    /\ ~IsNull(row.avg_peak_load_mw)

\* Query(3, ge=1) of min_days
ValidMinDays(min_days) == min_days >= 1

\* The handler of /weather/heatwaves.
get_heatwave_streaks(zone, min_temp_f, min_days, start_date, end_date, fault) ==
    LET ep == "heatwaves"
        req == [zone |-> zone, min_temp_f |-> min_temp_f, min_days |-> min_days,
                start_date |-> start_date, end_date |-> end_date, fault |-> fault]
        t == Query(R(100), min_temp_f)
        n == QueryInt(3, min_days)
        ok == heatwave_streaks.exists /\ fault = "none" /\ ValidMinDays(n)
    IN  /\ response = NoResponse
        /\ \E results \in {IF ok THEN HeatwaveQuery(heatwave_streaks.rows, zone,
                                        t, n, start_date, end_date)
                             ELSE <<>>} :
            response' =
              IF ~ValidMinDays(n)
                   THEN Response(ep, req, 422, <<>>, <<>>, FALSE)
              ELSE IF fault = "connect" THEN Response(ep, req, 500, <<>>, <<>>, FALSE)
              ELSE IF fault = "check" THEN Response(ep, req, 500, <<>>, <<>>, TRUE)
              ELSE IF ~heatwave_streaks.exists
                   THEN Response(ep, req, 501, <<>>, <<>>, TRUE)
              ELSE IF fault = "query" THEN Response(ep, req, 500, <<>>, <<>>, TRUE)
              ELSE IF \A i \in 1..Len(results) : ValidHeatwaveStreak(results[i])
                   THEN Response(ep, req, 200, results, results, TRUE)
              ELSE Response(ep, req, 500, <<>>, results, TRUE)
        /\ UNCHANGED <<tables, requests, connections>>

\* The days the streak data can cover.
MaxStreakDay == 6
StreakTimes == {TS(1, d, 0) : d \in 1..MaxStreakDay}

\* Station 1 (coast) reads 25 C (77 F) or 35 C (95 F) on any of the days, or
\* 40 C (104 F) on the first two; station 2 (east) reads 40 C on days 1 and
\* 2, or nothing.
StreakTempVals(t) == IF t.day <= 2 THEN {R(25), R(35), R(40)} ELSE {R(25), R(35)}
StreakWeatherTables ==
    UNION {{Table({WeatherRow(t, 1, f[t]) : t \in T} \cup e)
              : f \in {g \in [T -> {R(25), R(35), R(40)}] :
                          \A t \in T : g[t] \in StreakTempVals(t)},
                e \in {{}, {WeatherRow(TS(1, 1, 0), 2, R(40)),
                            WeatherRow(TS(1, 2, 0), 2, R(40))}}}
           : T \in SUBSET StreakTimes}

\* A load reading on every day: coast 20 on day 1 and 10 afterwards, east 10.
StreakLoadTable ==
    Table({LoadRow(t, IF t.day = 1 THEN R(20) ELSE R(10), R(10)) : t \in StreakTimes})

\* The parameters heatwave_streaks was built with: its threshold in
\* Fahrenheit, and a minimum length of one day so that min_days decides.
ViewThresholds == {R(90), R(100)}
ViewMinLength == 1

\* heatwave_streaks with the parameters it was built with.
StreaksTable(rows, threshold, min_length) ==
    [exists |-> TRUE, rows |-> rows, threshold |-> threshold,
     min_length |-> min_length]

HeatwaveRequest ==
    \/ \E z \in {<<>>, <<"coast">>}, t \in {R(90), R(100)}, n \in {1, 2, 3} :
          get_heatwave_streaks(z, t, n, NoDate, NoDate, "none")
    \/ \E z \in {<<>>, <<"coast">>}, s \in {NoDate, 2}, e \in {NoDate, 5} :
          get_heatwave_streaks(z, R(90), 1, s, e, "none")
    \/ get_heatwave_streaks(<<>>, R(100), 0, NoDate, NoDate, "none")
    \/ \E f \in DbFaults \ {"none"} :
          get_heatwave_streaks(<<>>, R(100), 3, NoDate, NoDate, f)

InitStreaks ==
    /\ ercot_load_wide_compare = NoTable
    /\ extreme_heat_load = NoTable
    /\ \/ /\ weather_hourly \in StreakWeatherTables
          /\ station_zone_map = StationZoneMap
          /\ ercot_load = StreakLoadTable
          /\ \E threshold \in ViewThresholds :
                heatwave_streaks =
                    StreaksTable(HeatwaveStreaksRows(weather_hourly.rows,
                                     station_zone_map.rows, ercot_load.rows,
                                     threshold, ViewMinLength),
                                 threshold, ViewMinLength)
       \/ /\ weather_hourly = NoTable
          /\ station_zone_map = NoTable
          /\ ercot_load = NoTable
          /\ heatwave_streaks = NoTable
    /\ ercot_load_wide_expected = NoTable
    /\ precipitation_impact = NoTable
    /\ load_outlier_weather = NoTable
    /\ response = NoResponse
    /\ requests = NoRequests
    /\ connections = <<>>

NextStreaks == HeatwaveRequest \/ Deliver

SpecStreaks == InitStreaks /\ [][NextStreaks]_vars

-----------------------------------------------------------------------------
(* Properties of the heatwave streaks                                      *)

StreaksAnswered ==
    /\ response.endpoint = "heatwaves"
    /\ response.status = 200

\* The day numbers of a zone's days whose daily maximum reaches threshold.
HotDayNumbers(wzd, z, threshold) ==
    {DayNumber(x.day_utc) : x \in {y \in wzd : /\ y.zone_code = z
                                                /\ RGe(y.temp_max_f, threshold)}}

\* The maximal runs of consecutive numbers within H, as <<first, last>>.
MaximalRuns(H) ==
    {ab \in H \X H :
        /\ ab[1] <= ab[2]
        /\ \A n \in ab[1]..ab[2] : n \in H
        /\ (ab[1] - 1) \notin H
        /\ (ab[2] + 1) \notin H}

\* The zones the answered heatwave request asked for.
StreakZoneRequested(z) == ZoneRequested(z)

\* The runs the answered request selects: maximal runs of the days satisfying
\* the predicate, of at least min_days days, that pass the request's filters
\* on the peak and on the dates.
ExpectedStreaks(wzd) ==
    LET req == response.request
    IN  UNION {{<<z, ab[1], ab[2]>> :
                  ab \in {r \in MaximalRuns(HotDayNumbers(wzd, z, heatwave_streaks.threshold)) :
                     /\ r[2] - r[1] + 1 >= req.min_days
                     /\ \E n \in HotDayNumbers(wzd, z, req.min_temp_f) :
                           r[1] <= n /\ n <= r[2]
                     /\ (req.start_date # NoDate => r[1] >= req.start_date)
                     /\ (req.end_date # NoDate => r[2] <= req.end_date)}}
               : z \in {zz \in {x.zone_code : x \in wzd} : StreakZoneRequested(zz)}}

\* The streaks of the answer as <<zone, first day, last day>>.
ReturnedStreaks ==
    {<<response.rows[i].zone_code, DayNumber(response.rows[i].streak_start),
       DayNumber(response.rows[i].streak_end)>> : i \in 1..Len(response.rows)}

C13_GapClosesRun ==
    StreaksAnswered =>
        \A wzd \in {AnsweredWzd} :
           \A i \in 1..Len(response.rows) :
              LET row == response.rows[i]
                  hot == HotDayNumbers(wzd, row.zone_code, heatwave_streaks.threshold)
              IN  /\ \A n \in DayNumber(row.streak_start)..DayNumber(row.streak_end) :
                        n \in hot
                  /\ row.streak_days =
                        Cardinality({n \in hot : /\ n >= DayNumber(row.streak_start)
                                                 /\ n <= DayNumber(row.streak_end)})

\* Coast satisfies the predicate on Jan1, Jan2 and Jan4, has no data for
\* Jan3, and the answer holds [Jan1,Jan2] and a streak starting on Jan4.
C13_Witness ==
    /\ StreaksAnswered
    /\ {1, 2, 4} \subseteq HotDayNumbers(AnsweredWzd, "coast", heatwave_streaks.threshold)
    /\ ~\E x \in AnsweredWzd : x.zone_code = "coast" /\ DayNumber(x.day_utc) = 3
    /\ <<"coast", 1, 2>> \in ReturnedStreaks
    /\ \E s \in ReturnedStreaks : s[1] = "coast" /\ s[2] = 4

\* C14: every streak get_heatwave_streaks returns for the threshold
\* min_temp_f consists only of days whose daily maximum temperature is >=
\* min_temp_f.
C14_StreakDaysReachMinTemp ==
    StreaksAnswered =>
        \A wzd \in {AnsweredWzd} :
           \A i \in 1..Len(response.rows) :
              \A x \in wzd :
                 (/\ x.zone_code = response.rows[i].zone_code
                  /\ DayNumber(x.day_utc) >= DayNumber(response.rows[i].streak_start)
                  /\ DayNumber(x.day_utc) <= DayNumber(response.rows[i].streak_end))
                 => RGe(x.temp_max_f, response.request.min_temp_f)

\* C15: within each zone the returned streaks are in strictly ascending
\* order of start day, for every combination of the optional zone, date and
\* threshold filters.
C15_StreaksAscendingByStart ==
    StreaksAnswered =>
        \A i, j \in 1..Len(response.rows) :
           (i < j /\ response.rows[i].zone_code = response.rows[j].zone_code)
           => DayNumber(response.rows[i].streak_start)
                < DayNumber(response.rows[j].streak_start)

\* An answer to a request with a zone and a date filter that holds two
\* streaks of one zone.
C15_Witness ==
    /\ StreaksAnswered
    /\ response.request.zone # <<>>
    /\ response.request.start_date # NoDate
    /\ \E i, j \in 1..Len(response.rows) :
          i < j /\ response.rows[i].zone_code = response.rows[j].zone_code

-----------------------------------------------------------------------------
(* The two joins of daily aggregates, over readings at different hours     *)

\* One load reading on each of the first MaxDay days of month 1, early or
\* late in the UTC day; the last day's load is 4, the others 0.
JoinHours == {0, 23}
JoinLoadTables ==
    {Table({LoadRow(TS(1, d, h[d]), IF d = MaxDay THEN R(4) ELSE R(0), R(0))
              : d \in 1..MaxDay})
       : h \in [1..MaxDay -> JoinHours]}

\* One reading of station 1 on some of those days, early or late.
JoinWeatherTables ==
    UNION {{Table({WeatherRow(TS(1, d, h[d]), 1, R(20 + d)) : d \in D})
              : h \in [D -> JoinHours]}
           : D \in SUBSET (1..MaxDay)}

InitJoins ==
    /\ ercot_load_wide_compare = NoTable
    /\ ercot_load \in JoinLoadTables
    /\ weather_hourly \in JoinWeatherTables
    /\ station_zone_map = StationZoneMap
    /\ extreme_heat_load = NoTable
    /\ heatwave_streaks = NoTable
    /\ ercot_load_wide_expected = NoTable
    /\ precipitation_impact = NoTable
    /\ load_outlier_weather = NoTable
    /\ response = NoResponse
    /\ requests = NoRequests
    /\ connections = <<>>

NextJoins == DailyOutliersRequest \/ ExtremeHeatRequest \/ Deliver

SpecJoins == InitJoins /\ [][NextJoins]_vars

\* The UTC calendar date of a timestamp, and the readings on a date.
UtcDate(t) == [month |-> t.month, day |-> t.day]
LoadOn(d) == {l \in ercot_load.rows : UtcDate(l.hour_end) = d}
WeatherOnDate(d) == {w \in weather_hourly.rows : UtcDate(w.time) = d}

\* The stations of a zone.
StationsOf(z) == {m.station_id : m \in {x \in station_zone_map.rows : x.zone_code = z}}

\* The answered outlier request keeps the (month, group) of a labelled day.
OutlierRowRequested(od) ==
    LET req == response.request
    IN  /\ od.outlier_group # "none"
        /\ (req.start_month # NoMonth => od.month_start.month >= req.start_month)
        /\ (req.end_month # NoMonth => od.month_start.month <= req.end_month)
        /\ (req.outlier_type # NoType => od.outlier_group = req.outlier_type)

\* The outlier report counts, per (month, group), the labelled days that have
\* a weather reading on the same UTC date, and has a row for each such group.
OutlierJoinOnUtcDate ==
    (response.endpoint = "daily_outliers" /\ response.status = 200) =>
        \A labels \in {AnsweredOutlierDays} :
           /\ {od.day_utc : od \in labels} = {UtcDate(l.hour_end) : l \in ercot_load.rows}
           /\ \A i \in 1..Len(response.rows) :
                 response.rows[i].num_days =
                    Cardinality({od \in labels :
                        /\ od.month_start = response.rows[i].month_start
                        /\ od.outlier_group = response.rows[i].outlier_group
                        /\ WeatherOnDate(od.day_utc) # {}})
           /\ \A od \in labels :
                 (OutlierRowRequested(od) /\ WeatherOnDate(od.day_utc) # {}) =>
                    \E i \in 1..Len(response.rows) :
                       /\ response.rows[i].month_start = od.month_start
                       /\ response.rows[i].outlier_group = od.outlier_group

\* The extreme-heat report counts, per zone, the UTC dates that have a
\* reading of the zone at or above the threshold and a load reading.
HeatJoinOnUtcDate ==
    HeatAnswered =>
        \A i \in 1..Len(response.rows) :
           response.rows[i].num_extreme_heat_days =
              Cardinality({d \in {UtcDate(w.time) : w \in weather_hourly.rows} :
                  /\ LoadOn(d) # {}
                  /\ \E w \in WeatherOnDate(d) :
                        /\ w.station_id \in StationsOf(response.rows[i].zone_code)
                        /\ RGe(CToF(w.temperature_2m_c), response.rows[i].threshold_temp_f)})

\* C16: in both computations that join two daily aggregates (daily load with
\* daily weather in get_daily_load_outliers, zone daily maximum temperature
\* with daily peak load in get_extreme_heat_load_analysis) both sides key the
\* day by the UTC calendar date of the timestamp: readings with the same UTC
\* date meet in the join whatever their hours, and readings with different
\* UTC dates never do.
C16_JoinKeyIsUtcDate == OutlierJoinOnUtcDate /\ HeatJoinOnUtcDate

\* An outlier day whose load reading and weather reading lie at different
\* hours of the same UTC date was joined and reported.
C16_Witness ==
    /\ response.endpoint = "daily_outliers"
    /\ response.status = 200
    /\ Len(response.rows) >= 1
    /\ \E od \in AnsweredOutlierDays :
          /\ od.outlier_group # "none"
          /\ \E l \in LoadOn(od.day_utc), w \in WeatherOnDate(od.day_utc) :
                l.hour_end.hour # w.time.hour

\* An extreme day whose weather reading and load reading lie at different
\* hours of the same UTC date was joined and counted.
HeatJoinedAcrossHours ==
    /\ HeatAnswered
    /\ \E i \in 1..Len(response.rows) :
          /\ response.rows[i].num_extreme_heat_days = 1
          /\ \A w \in weather_hourly.rows :
                RGe(CToF(w.temperature_2m_c), response.rows[i].threshold_temp_f) =>
                   \A l \in LoadOn(UtcDate(w.time)) : l.hour_end.hour # w.time.hour

-----------------------------------------------------------------------------
(* Independence of the groups of one answer                                *)

\* What get_forecast_metrics returns for a table that exists when the
\* database does not fail: the query's rows through
\* response_model=List[ForecastMetrics], or 500 when a row is rejected.
ForecastMetricsAnswer(rows, start_date, end_date, region) ==
    LET Through(results) ==
            IF \A i \in 1..Len(results) : ValidForecastMetrics(results[i])
            THEN [status |-> 200, rows |-> results]
            ELSE [status |-> 500, rows |-> <<>>]
    IN  Through(ForecastMetricsQuery(rows, start_date, end_date, region))

\* The record an answer holds for group g under the field key: <<record>>,
\* or <<>> when the answer failed or has no record of g.
RecordOf(answer, key, g) ==
    IF answer.status = 200
    THEN SelectSeq(answer.rows, LAMBDA row : row[key] = g)
    ELSE <<>>

\* The table with the columns of every region other than g set to the actual
\* value a and the expected value e in every row.
OtherRegionsSetTo(rows, g, a, e) ==
    {[hour_end |-> row.hour_end,
      actual |-> [r \in Regions |-> IF r = g THEN row.actual[r] ELSE a],
      expected |-> [r \in Regions |-> IF r = g THEN row.expected[r] ELSE e]]
       : row \in rows}

\* C17: group independence: the record returned for a group g by a call
\* restricted to a set of groups containing g equals the record the
\* unrestricted call returns for g, and changing only the input values of
\* another group never changes g's record (get_forecast_metrics).
C17_GroupRecordsIndependent ==
    MetricsAnswered =>
        LET req == response.request
            rows == ercot_load_wide_compare.rows
        IN  \A g \in Regions :
               MetricsRequested(g) =>
                  /\ RecordOf(response, "region", g) =
                        RecordOf(ForecastMetricsAnswer(rows, req.start_date,
                                     req.end_date, <<>>), "region", g)
                  /\ \A a \in {Null, R(0), R(10)}, e \in {Null, R(3), R(9)} :
                        RecordOf(response, "region", g) =
                           RecordOf(ForecastMetricsAnswer(
                                        OtherRegionsSetTo(rows, g, a, e),
                                        req.start_date, req.end_date, req.region),
                                    "region", g)

\* The same statement about the rows the query computes, before the
\* response model is applied.
QueryRecordsIndependent ==
    MetricsAnswered =>
        LET req == response.request
            rows == ercot_load_wide_compare.rows
            Of(results, g) == SelectSeq(results, LAMBDA row : row.region = g)
        IN  \A g \in Regions :
               MetricsRequested(g) =>
                  /\ Of(response.sql, g) =
                        Of(ForecastMetricsQuery(rows, req.start_date, req.end_date, <<>>), g)
                  /\ \A a \in {Null, R(0), R(10)}, e \in {Null, R(3), R(9)} :
                        Of(response.sql, g) =
                           Of(ForecastMetricsQuery(OtherRegionsSetTo(rows, g, a, e),
                                  req.start_date, req.end_date, req.region), g)

-----------------------------------------------------------------------------
(* Determinism of the answers                                              *)

\* C18: two runs with identical input rows and identical parameters return
\* the identical sequence of records: every result sequence the query of the
\* answered request can produce over the stored rows is the one returned, and
\* the final ORDER BY key is total over the rows of the result (no two rows
\* of an answer share it).
C18_SameInputSameSequence ==
    /\ (response.endpoint = "peak_load_extreme_heat" /\ response.status = 200) =>
          /\ \A again \in PeakLoadQuery(extreme_heat_load.rows, response.request.zone,
                                response.request.start_date, response.request.end_date,
                                response.request.threshold) :
                again = response.rows
          /\ \A i, j \in 1..Len(response.rows) :
                i < j => response.rows[i].zone_code # response.rows[j].zone_code
    /\ HeatAnswered =>
          \A i, j \in 1..Len(response.rows) :
             i < j => response.rows[i].zone_code # response.rows[j].zone_code

\* The part of the statement about /load/extreme-heat-analysis alone.
HeatOrderIsTotal ==
    HeatAnswered =>
        \A i, j \in 1..Len(response.rows) :
           i < j => response.rows[i].zone_code # response.rows[j].zone_code

-----------------------------------------------------------------------------
(* Empty input                                                             *)

\* The rows the query of the answered /load/daily-outliers request selects.
OutliersSelected ==
    DailyOutliersQuery(ercot_load.rows, weather_hourly.rows,
                       response.request.start_month, response.request.end_month,
                       response.request.outlier_type,
                       response.request.std_dev_threshold)

\* C19: when the hourly series holds no observation at all the computation
\* fails (the request is not answered 200), whereas when observations exist
\* and the filters select none of them the answer is the empty sequence and
\* no error.
C19_EmptySeriesFailsEmptySelectionDoesNot ==
    OutliersAnswered =>
        /\ ercot_load.rows = {} => response.status # 200
        /\ (ercot_load.rows # {} /\ OutliersSelected = <<>>) =>
              (response.status = 200 /\ response.rows = <<>>)

\* The second half of the statement alone.
EmptySelectionIsEmptySequence ==
    (OutliersAnswered /\ ercot_load.rows # {} /\ OutliersSelected = <<>>) =>
        (response.status = 200 /\ response.rows = <<>>)

\* A request over an hourly series that has readings and selects none.
EmptySelectionAnswered ==
    /\ OutliersAnswered
    /\ ercot_load.rows # {}
    /\ OutliersSelected = <<>>
    /\ response.request.outlier_type # NoType

-----------------------------------------------------------------------------
(* Parameters the caller leaves out                                        *)

\* Calls of the four endpoints whose output depends on a threshold, with
\* the threshold passed and with it left out of the query string.
DefaultsRequest ==
    \/ \E k \in {NotPassed, R(1)} :
          get_daily_load_outliers(NoMonth, NoMonth, NoType, k, "none")
    \/ \E p \in {NotPassed, R(50)} :
          get_extreme_heat_load_analysis(<<>>, p, "none")
    \/ \E p \in {NotPassed, R(25)} :
          get_peak_load_extreme_heat(NoZone, NoDate, NoDate, p, "none")
    \/ \E t \in {NotPassed, R(90)}, n \in {NotPassedInt, 1} :
          get_heatwave_streaks(<<>>, t, n, NoDate, NoDate, "none")

InitDefaults == InitOutliers \/ InitHeat \/ InitStreaks

NextDefaults == DefaultsRequest \/ Deliver

SpecDefaults == InitDefaults /\ [][NextDefaults]_vars

\* The answered request left out a parameter that changes the output.
OutlierKOmitted ==
    response.endpoint = "daily_outliers"
    /\ response.request.std_dev_threshold = NotPassed
HeatPercentileOmitted ==
    response.endpoint = "extreme_heat_analysis"
    /\ response.request.percentile_threshold = NotPassed
PeakPercentileOmitted ==
    response.endpoint = "peak_load_extreme_heat"
    /\ response.request.threshold = NotPassed
StreakParameterOmitted ==
    response.endpoint = "heatwaves"
    /\ (response.request.min_temp_f = NotPassed
        \/ response.request.min_days = NotPassedInt)
ParameterOmitted ==
    OutlierKOmitted \/ HeatPercentileOmitted \/ PeakPercentileOmitted
    \/ StreakParameterOmitted

\* C20 (as stated): a call that omits the streak threshold or min_length,
\* the outlier k or the percentile p is never answered as if a value had
\* been passed: it is not answered with a result.
C20_OmittedParameterIsNotAnswered ==
    ParameterOmitted => response.status # 200

\* The rows the heatwave query returns for the answered request when
\* min_temp_f and min_days, where left out, are taken to be t and n.
StreaksWith(t, n) ==
    HeatwaveQuery(heatwave_streaks.rows, response.request.zone,
        IF response.request.min_temp_f = NotPassed THEN t
        ELSE response.request.min_temp_f,
        IF response.request.min_days = NotPassedInt THEN n
        ELSE response.request.min_days,
        response.request.start_date, response.request.end_date)

\* C20 (amended): a call that omits one of these parameters is never
\* rejected for it and is answered exactly as the call that passes the
\* default its declaration names: std_dev_threshold 3, percentile_threshold
\* 99, threshold 99, min_temp_f 100 and min_days 3.
C20_OmittedParameterTakesDeclaredDefault ==
    /\ ParameterOmitted => response.status # 422
    /\ (OutlierKOmitted /\ ercot_load.exists /\ weather_hourly.exists) =>
          /\ response.sql =
                DailyOutliersQuery(ercot_load.rows, weather_hourly.rows,
                    response.request.start_month, response.request.end_month,
                    response.request.outlier_type, R(3))
          /\ response.status = 200 => response.rows = response.sql
    /\ (HeatPercentileOmitted /\ weather_hourly.exists /\ station_zone_map.exists
          /\ ercot_load.exists) =>
          /\ response.sql =
                ExtremeHeatQuery(weather_hourly.rows, station_zone_map.rows,
                    ercot_load.rows, response.request.zone, R(99))
          /\ response.status = 200 => response.rows = response.sql
    /\ (PeakPercentileOmitted /\ extreme_heat_load.exists) =>
          /\ response.sql \in
                PeakLoadQuery(extreme_heat_load.rows, response.request.zone,
                    response.request.start_date, response.request.end_date, R(99))
          /\ response.status = 200 => response.rows = response.sql
    /\ (StreakParameterOmitted /\ heatwave_streaks.exists) =>
          /\ response.sql = StreaksWith(R(100), 3)
          /\ response.status = 200 => response.rows = response.sql

\* A heatwave request that left out both parameters and was answered with
\* the streaks of at least 3 days reaching 100 F, which are not the streaks
\* another choice of values returns.
C20_Witness ==
    /\ response.endpoint = "heatwaves"
    /\ response.request.min_temp_f = NotPassed
    /\ response.request.min_days = NotPassedInt
    /\ response.status = 200
    /\ response.rows # <<>>
    /\ response.rows # StreaksWith(R(90), 1)
    /\ StreaksWith(R(100), 4) = <<>>

\* The other three endpoints answered a call that left the parameter out
\* with rows that are not the rows of another value.
OutlierDefaultAnswered ==
    /\ OutlierKOmitted /\ response.status = 200
    /\ response.rows #
          DailyOutliersQuery(ercot_load.rows, weather_hourly.rows,
              response.request.start_month, response.request.end_month,
              response.request.outlier_type, R(1))
HeatDefaultAnswered ==
    /\ HeatPercentileOmitted /\ response.status = 200
    /\ response.rows # <<>>
    /\ response.rows #
          ExtremeHeatQuery(weather_hourly.rows, station_zone_map.rows,
              ercot_load.rows, response.request.zone, R(50))
PeakDefaultAnswered ==
    /\ PeakPercentileOmitted /\ response.status = 200
    /\ response.rows # <<>>
    /\ response.rows \notin
          PeakLoadQuery(extreme_heat_load.rows, response.request.zone,
              response.request.start_date, response.request.end_date, R(25))

-----------------------------------------------------------------------------
(* Range of r2                                                             *)

\* C27: every r2 the metrics query computes over both-present pairs with
\* SS_tot # 0 (an r2 that is not NULL) lies in [-1, 1], the range the
\* ForecastMetrics response model accepts.
C27_R2WithinResponseModelRange ==
    (response.endpoint = "forecast_metrics" /\ response.request.fault = "none") =>
        \A i \in 1..Len(response.sql) :
            ~IsNull(response.sql[i].r2) =>
                (RGe(response.sql[i].r2, R(-1)) /\ RLe(response.sql[i].r2, R(1)))

\* r2 never exceeds 1: the part of the range that does hold.
R2AtMostOne ==
    (response.endpoint = "forecast_metrics" /\ response.request.fault = "none") =>
        \A i \in 1..Len(response.sql) :
            ~IsNull(response.sql[i].r2) => RLe(response.sql[i].r2, R(1))

-----------------------------------------------------------------------------
(* Bounds of the extreme-heat threshold                                    *)

\* The threshold hot_cutoff holds for zone z at the requested percentile, and
\* the days of weather_zone_daily the WHERE clause keeps for the zone.
ZoneThreshold(wzd, z) ==
    LET hc == CutoffOf(wzd, response.request.percentile_threshold)
    IN  (CHOOSE c \in hc : c.zone_code = z).p_threshold_temp_f
ExtremeWeatherDays(wzd, z) ==
    {w \in wzd : w.zone_code = z /\ IsExtreme(w.temp_max_f, ZoneThreshold(wzd, z))}

\* C29: for every zone with at least one daily maximum and every accepted
\* percentile, the threshold lies between the zone's least and greatest daily
\* maximum, at least one day of the zone is at or above it, and at p = 100
\* the extreme days are exactly the days attaining the maximum.
C29_ThresholdWithinZoneRange ==
    HeatComputed =>
        \A wzd \in {AnsweredWzd} :
           \A z \in {x.zone_code : x \in wzd} :
              \A days \in {{x \in wzd : x.zone_code = z}} :
                 \A th \in {ZoneThreshold(wzd, z)} :
                    /\ \E lo \in days : RLe(lo.temp_max_f, th)
                    /\ \E hi \in days : RGe(hi.temp_max_f, th)
                    /\ ExtremeWeatherDays(wzd, z) # {}
                    /\ response.request.percentile_threshold = R(100) =>
                          ExtremeWeatherDays(wzd, z) =
                             {d \in days : \A o \in days :
                                 RLe(o.temp_max_f, d.temp_max_f)}

\* A request answered over a zone whose days differ in temperature, with the
\* threshold strictly inside the zone's range, and one answered at p = 100
\* over such a zone.
C29_Witness ==
    /\ HeatAnswered
    /\ response.rows # <<>>
    /\ \E d \in AnsweredWzd, e \in AnsweredWzd :
          /\ d.zone_code = "coast" /\ e.zone_code = "coast"
          /\ RLt(d.temp_max_f, ZoneThreshold(AnsweredWzd, "coast"))
          /\ RGt(e.temp_max_f, ZoneThreshold(AnsweredWzd, "coast"))
ThresholdAtMaximumAnswered ==
    /\ HeatAnswered
    /\ response.request.percentile_threshold = R(100)
    /\ \E d \in AnsweredWzd, e \in AnsweredWzd :
          /\ d.zone_code = "coast" /\ e.zone_code = "coast"
          /\ RLt(d.temp_max_f, e.temp_max_f)

-----------------------------------------------------------------------------
(* Rows of the daily outlier report                                        *)

\* The days of outlier_days with the month and label of a report row.
LabelledLike(labels, month_start, outlier_group) ==
    {od \in labels : od.month_start = month_start /\ od.outlier_group = outlier_group}

\* C30: only days labelled high or low are aggregated, each reported (month,
\* group) row has num_days >= 1, and num_days is the number of days of that
\* month with that label, the labelled days without a daily weather
\* aggregate included: every requested (month, group) that has a labelled
\* day is reported with that count.
C30_ReportCountsEveryLabelledDay ==
    (response.endpoint = "daily_outliers" /\ response.status = 200) =>
        \A labels \in {AnsweredOutlierDays} :
           /\ \A i \in 1..Len(response.rows) :
                 /\ response.rows[i].outlier_group \in {"high", "low"}
                 /\ response.rows[i].num_days >= 1
                 /\ response.rows[i].num_days =
                       Cardinality(LabelledLike(labels, response.rows[i].month_start,
                                                response.rows[i].outlier_group))
           /\ \A od \in labels :
                 OutlierRowRequested(od) =>
                    \E i \in 1..Len(response.rows) :
                       /\ response.rows[i].month_start = od.month_start
                       /\ response.rows[i].outlier_group = od.outlier_group

\* The first two parts of the statement alone: no row for the unlabelled
\* days, and no row that counts no day.
ReportRowsAreLabelledAndCounted ==
    (response.endpoint = "daily_outliers" /\ response.status = 200) =>
        \A i \in 1..Len(response.rows) :
            /\ response.rows[i].outlier_group \in {"high", "low"}
            /\ response.rows[i].num_days >= 1

-----------------------------------------------------------------------------
(* GET /load/hourly, /load/comparison, /weather/precipitation and          *)
(* /load/outliers/weather-conditions: the queries.                         *)

\* A timestamp as a number of hours, for comparisons.
TimeNumber(t) == 24 * DayNumber(t) + t.hour

\* LIMIT n
Limit(s, n) == IF Len(s) <= n THEN s ELSE SubSeq(s, 1, n)

\* limit: int = Query(1000, ge=1, le=10000)
ValidLimitFromZero(limit) == limit >= 0 /\ limit <= 10000
ValidLimit(limit) == limit >= 1 /\ limit <= 10000

\* The columns of ercot_load and staging.ercot_load_wide_expected carried
\* here (far_west, north, north_c, southern, south_c and west are stored
\* beside them and selected the same way).
LoadColumns == <<"coast", "east", "ercot">>
Column(row, name) ==
    CASE name = "coast" -> row.coast
      [] name = "east" -> row.east
      [] name = "ercot" -> row.ercot

\* SELECT hour_end, coast, .. FROM ercot_load WHERE 1=1 [AND hour_end >= %s]
\* [AND hour_end <= %s] ORDER BY hour_end LIMIT %s: the result sequences the
\* database may return.
HourlyLoadQuery(rows, start_date, end_date, limit) ==
    LET sel == {r \in rows :
                  /\ (start_date # NoDate => TimeNumber(r.hour_end) >= start_date)
                  /\ (end_date # NoDate => TimeNumber(r.hour_end) <= end_date)}
        key == [r \in sel |-> TimeNumber(r.hour_end)]
    IN  {Limit(ordered, limit) : ordered \in Orderings(sel, key)}

\* The HourlyLoadData response model: every column a float.
ValidHourlyLoadData(row) ==
    \A i \in 1..Len(LoadColumns) : ~IsNull(Column(row, LoadColumns[i]))

\* valid_regions, and invalid_regions = [r for r in selected_regions if r
\* not in valid_regions].  selected_regions is the list the region parameter
\* splits into, each item stripped; <<>> is the parameter omitted or empty.
valid_regions ==
    {"coast", "east", "far_west", "north", "north_c", "southern", "south_c",
     "west", "ercot"}
NoInvalidRegions(selected_regions) == <<>>
invalid_regions(selected_regions) ==
    SelectSeq(selected_regions, LAMBDA r : r \notin valid_regions)

\* select_fields: a.<reg> as <reg>_actual, e.<reg> as <reg>_expected for each
\* selected region, or for every region when no region is selected.
select_fields(selected_regions) ==
    IF selected_regions # <<>> THEN selected_regions ELSE LoadColumns

\* FROM public.ercot_load a FULL OUTER JOIN staging.ercot_load_wide_expected e
\* ON a.hour_end = e.hour_end: matched pairs, and the rows of either side
\* without a match beside a row of NULLs.
NullTime == TS(0, 0, 0)
NullLoadRow == [hour_end |-> NullTime, coast |-> Null, east |-> Null, ercot |-> Null]
FullOuterJoin(a_rows, e_rows) ==
    {x \in a_rows \X e_rows : x[1].hour_end = x[2].hour_end}
    \cup {<<a, NullLoadRow>> : a \in {r \in a_rows :
                                  \A e \in e_rows : e.hour_end # r.hour_end}}
    \cup {<<NullLoadRow, e>> : e \in {r \in e_rows :
                                  \A a \in a_rows : a.hour_end # r.hour_end}}

\* COALESCE(a.hour_end, e.hour_end)
CoalesceHourEnd(x) == IF x[1].hour_end # NullTime THEN x[1].hour_end ELSE x[2].hour_end

\* The whole /load/comparison query for the select fields built: WHERE 1=1
\* [AND COALESCE(..) >= %s] [AND COALESCE(..) <= %s] ORDER BY COALESCE(..)
\* LIMIT %s.
LoadComparisonQuery(a_rows, e_rows, fields, start_date, end_date, limit) ==
    LET sel == {x \in FullOuterJoin(a_rows, e_rows) :
                  /\ (start_date # NoDate => TimeNumber(CoalesceHourEnd(x)) >= start_date)
                  /\ (end_date # NoDate => TimeNumber(CoalesceHourEnd(x)) <= end_date)}
        key == [x \in sel |-> TimeNumber(CoalesceHourEnd(x))]
        Out(x) == [hour_end |-> CoalesceHourEnd(x),
                   actual |-> [i \in 1..Len(fields) |-> Column(x[1], fields[i])],
                   expected |-> [i \in 1..Len(fields) |-> Column(x[2], fields[i])]]
    IN  {Limit([i \in 1..Len(ordered) |-> Out(ordered[i])], limit)
           : ordered \in Orderings(sel, key)}

\* The LoadComparison response model: hour_end required, every load Optional.
ValidLoadComparison(row) == row.hour_end # NullTime

\* SELECT zone_code, rainy_day, avg_load_mw, num_days FROM precipitation_impact
\* WHERE 1=1 [AND zone_code = ANY(%s)] [AND date >= %s] [AND date <= %s]
\* ORDER BY zone_code, rainy_day DESC.
PrecipitationQuery(rows, zone, start_date, end_date) ==
    LET sel == {r \in rows :
                  /\ (zone # <<>> => \E i \in 1..Len(zone) : zone[i] = r.zone_code)
                  /\ (start_date # NoDate => r.date >= start_date)
                  /\ (end_date # NoDate => r.date <= end_date)}
        key == [r \in sel |->
                  2 * (CHOOSE i \in 1..Len(ZoneOrder) : ZoneOrder[i] = r.zone_code)
                  + (IF r.rainy_day THEN 0 ELSE 1)]
    IN  {[i \in 1..Len(ordered) |->
             [zone_code |-> ordered[i].zone_code, rainy_day |-> ordered[i].rainy_day,
              avg_load_mw |-> ordered[i].avg_load_mw, num_days |-> ordered[i].num_days]]
           : ordered \in Orderings(sel, key)}

\* The PrecipitationImpact response model.
ValidPrecipitationImpact(row) ==
    /\ ~IsNull(row.avg_load_mw)
    /\ row.num_days >= 0

\* SELECT month_start, outlier_group, num_days, avg_temp_c, .. FROM
\* load_outlier_weather WHERE std_dev_threshold = %s [AND month_start >= %s]
\* [AND month_start <= %s] [AND month_start = ANY(%s)] [AND outlier_group =
\* %s] ORDER BY month_start, outlier_group.  month is the list of months the
\* parameter splits into; <<>> is the parameter omitted.
OutlierWeatherQuery(rows, start_date, end_date, month, outlier_type, k) ==
    LET sel == {r \in rows :
                  /\ r.std_dev_threshold = k
                  /\ (start_date # NoDate => DayNumber(r.month_start) >= start_date)
                  /\ (end_date # NoDate => DayNumber(r.month_start) <= end_date)
                  /\ (month # <<>> =>
                         \E i \in 1..Len(month) : r.month_start = MonthStart([month |-> month[i], day |-> 1]))
                  /\ (outlier_type # NoType => r.outlier_group = outlier_type)}
        key == [r \in sel |->
                  2 * r.month_start.month + (IF r.outlier_group = "high" THEN 0 ELSE 1)]
    IN  {[i \in 1..Len(ordered) |->
             [month_start |-> ordered[i].month_start,
              outlier_group |-> ordered[i].outlier_group,
              num_days |-> ordered[i].num_days, avg_temp_c |-> ordered[i].avg_temp_c]]
           : ordered \in Orderings(sel, key)}

-----------------------------------------------------------------------------
(* The handlers step by step: parameter validation, the code before the    *)
(* try block, get_db_connection, the table check, the data query, the      *)
(* finally clause of get_db_connection, the except clauses and the return. *)

Endpoints ==
    {"health", "hourly", "comparison", "forecast_metrics", "heatwaves",
     "precipitation", "peak_load_extreme_heat", "outliers_weather",
     "daily_outliers", "extreme_heat_analysis"}

\* The handlers that run SELECT EXISTS (.. information_schema.tables ..)
\* before their data query, and the handlers with `except HTTPException:
\* raise` before `except Exception`.
ChecksTable(ep) ==
    ep \in {"forecast_metrics", "heatwaves", "precipitation",
            "peak_load_extreme_heat", "outliers_weather", "extreme_heat_analysis"}
ReraisesNothing(ep) == FALSE
ReraisesHTTPException(ep) ==
    ep \in {"forecast_metrics", "heatwaves", "precipitation",
            "peak_load_extreme_heat", "outliers_weather", "extreme_heat_analysis"}

\* What the existence check of a handler returns.
CheckedTablesExist(ep) ==
    CASE ep = "forecast_metrics" -> ercot_load_wide_compare.exists
      [] ep = "heatwaves" -> heatwave_streaks.exists
      [] ep = "precipitation" -> precipitation_impact.exists
      [] ep = "peak_load_extreme_heat" -> extreme_heat_load.exists
      [] ep = "outliers_weather" -> load_outlier_weather.exists
      [] ep = "extreme_heat_analysis" ->
            weather_hourly.exists /\ station_zone_map.exists /\ ercot_load.exists

\* The tables a handler's data query reads exist (the query raises
\* otherwise).
QueryTablesExist(ep) ==
    CASE ep = "health" -> TRUE
      [] ep = "hourly" -> ercot_load.exists
      [] ep = "comparison" -> ercot_load.exists /\ ercot_load_wide_expected.exists
      [] ep = "daily_outliers" -> ercot_load.exists /\ weather_hourly.exists
      [] OTHER -> CheckedTablesExist(ep)

\* The Query(..., ge=, le=) and Literal declarations of a handler's
\* parameters; a request that fails them is answered 422 by the framework.
\* A query parameter the handler does not declare (model) is ignored.
ValidParams(ep, p) ==
    CASE ep = "hourly" -> ValidLimit(QueryInt(1000, p.limit))
      [] ep = "comparison" -> ValidLimit(QueryInt(1000, p.limit))
      [] ep = "heatwaves" -> ValidMinDays(QueryInt(3, p.min_days))
      [] ep = "peak_load_extreme_heat" -> ValidThreshold(Query(R(99), p.threshold))
      [] ep = "outliers_weather" ->
            ValidOutlierParams(p.outlier_type, Query(R(3), p.std_dev_threshold))
      [] ep = "daily_outliers" ->
            ValidOutlierParams(p.outlier_type, Query(R(3), p.std_dev_threshold))
      [] ep = "extreme_heat_analysis" ->
            ValidPercentileThreshold(Query(R(99), p.percentile_threshold))
      [] OTHER -> TRUE

\* The result sequences a handler's data query may return for parameters p
\* and, for /load/comparison, the select fields built.
DataQuery(ep, p, fields) ==
    CASE ep = "health" -> {<<1>>}
      [] ep = "hourly" ->
            HourlyLoadQuery(ercot_load.rows, p.start_date, p.end_date,
                            QueryInt(1000, p.limit))
      [] ep = "comparison" ->
            LoadComparisonQuery(ercot_load.rows, ercot_load_wide_expected.rows,
                                fields, p.start_date, p.end_date,
                                QueryInt(1000, p.limit))
      [] ep = "forecast_metrics" ->
            {ForecastMetricsQuery(ercot_load_wide_compare.rows, p.start_date,
                                  p.end_date, p.region)}
      [] ep = "heatwaves" ->
            {HeatwaveQuery(heatwave_streaks.rows, p.zone, Query(R(100), p.min_temp_f),
                           QueryInt(3, p.min_days), p.start_date, p.end_date)}
      [] ep = "precipitation" ->
            PrecipitationQuery(precipitation_impact.rows, p.zone, p.start_date,
                               p.end_date)
      [] ep = "peak_load_extreme_heat" ->
            PeakLoadQuery(extreme_heat_load.rows, p.zone, p.start_date, p.end_date,
                          Query(R(99), p.threshold))
      [] ep = "outliers_weather" ->
            OutlierWeatherQuery(load_outlier_weather.rows, p.start_date, p.end_date,
                                p.month, p.outlier_type, Query(R(3), p.std_dev_threshold))
      [] ep = "daily_outliers" ->
            {DailyOutliersQuery(ercot_load.rows, weather_hourly.rows, p.start_month,
                                p.end_month, p.outlier_type,
                                Query(R(3), p.std_dev_threshold))}
      [] ep = "extreme_heat_analysis" ->
            {ExtremeHeatQuery(weather_hourly.rows, station_zone_map.rows,
                              ercot_load.rows, p.zone,
                              Query(R(99), p.percentile_threshold))}

\* The response_model of a handler applied to a row (/health has none).
ValidRow(ep, row) ==
    CASE ep = "hourly" -> ValidHourlyLoadData(row)
      [] ep = "comparison" -> ValidLoadComparison(row)
      [] ep = "forecast_metrics" -> ValidForecastMetrics(row)
      [] ep = "heatwaves" -> ValidHeatwaveStreak(row)
      [] ep = "precipitation" -> ValidPrecipitationImpact(row)
      [] ep \in {"peak_load_extreme_heat", "extreme_heat_analysis"} ->
            ValidExtremeHeatLoad(row)
      [] ep \in {"outliers_weather", "daily_outliers"} -> ValidLoadOutlierWeather(row)
      [] OTHER -> TRUE

\* Exceptions: none pending, an HTTPException with its status and detail,
\* and any other exception with its text.
NoException == [kind |-> "none", status |-> 0, text |-> ""]
HTTPException(status_code, detail) ==
    [kind |-> "HTTPException", status |-> status_code, text |-> detail]
Exception(text) == [kind |-> "Exception", status |-> 0, text |-> text]

\* A request: its endpoint and parameters, the step its handler is at, the
\* connection it holds (0: none), the statements it executed, the select
\* fields it built, the exception it is unwinding with, the rows it fetched
\* and, once done, the status, the detail (a list of texts) and the rows
\* sent.
IdleRequest ==
    [endpoint |-> "none", params |-> <<>>, pc |-> "idle", entered |-> FALSE,
     conn |-> 0, executed |-> <<>>, fields |-> <<>>, raised |-> NoException,
     results |-> <<>>, status |-> 0, detail |-> <<>>, rows |-> <<>>]

MaxRequests == 2
RequestIds == 1..MaxRequests

\* The framework receives a request and validates its declared parameters.
Receive(i, req) ==
    /\ requests[i].pc = "idle"
    /\ requests' =
         [requests EXCEPT ![i] =
            IF ValidParams(req.endpoint, req.params)
            THEN [@ EXCEPT !.endpoint = req.endpoint, !.params = req.params,
                           !.pc = "body"]
            ELSE [@ EXCEPT !.endpoint = req.endpoint, !.params = req.params,
                           !.pc = "done", !.status = 422,
                           !.detail = <<"value is not valid">>]]
    /\ UNCHANGED <<tables, response, connections>>

\* The handler body up to its try block.  get_load_comparison validates the
\* regions and builds its select fields; the other handlers have nothing
\* that can fail there.
Body(i) ==
    LET r == requests[i]
        invalid == IF r.endpoint = "comparison"
                   THEN invalid_regions(r.params.region) ELSE <<>>
    IN  /\ r.pc = "body"
        /\ requests' =
             [requests EXCEPT ![i] =
                IF invalid # <<>>
                THEN [@ EXCEPT !.entered = TRUE, !.pc = "done", !.status = 400,
                               !.detail = invalid]
                ELSE [@ EXCEPT !.entered = TRUE, !.pc = "connect",
                               !.fields = IF r.endpoint = "comparison"
                                          THEN select_fields(r.params.region)
                                          ELSE <<>>]]
        /\ UNCHANGED <<tables, response, connections>>

\* psycopg2.connect(**DB_CONFIG): a connection of its own for every call.
SharedConnectionId(conns) ==
    IF \E c \in 1..Len(conns) : conns[c].open
    THEN CHOOSE c \in 1..Len(conns) : conns[c].open
    ELSE Len(conns) + 1
NewConnectionId(conns) == Len(conns) + 1

\* with get_db_connection() as conn: the connection is opened.
Connect(i) ==
    /\ requests[i].pc = "connect"
    /\ \E c \in {NewConnectionId(connections)} :
          /\ connections' =
               IF c > Len(connections)
               THEN Append(connections, [owner |-> i, open |-> TRUE, closes |-> 0])
               ELSE connections
          /\ requests' =
               [requests EXCEPT ![i] =
                  [@ EXCEPT !.conn = c,
                            !.pc = IF ChecksTable(requests[i].endpoint)
                                   THEN "check" ELSE "query"]]
    /\ UNCHANGED <<tables, response>>

\* psycopg2.connect raises: nothing was opened, the except clause runs.
ConnectRaises(i) ==
    /\ requests[i].pc = "connect"
    /\ requests' =
         [requests EXCEPT ![i] =
            [@ EXCEPT !.pc = "except",
                      !.raised = Exception("could not connect to server")]]
    /\ UNCHANGED <<tables, response, connections>>

\* cursor.execute of the existence check and `if not table_exists: raise
\* HTTPException(status_code=501, ...)`.
CheckTable(i) ==
    LET r == requests[i]
    IN  /\ r.pc = "check"
        /\ requests' =
             [requests EXCEPT ![i] =
                IF ~connections[r.conn].open
                THEN [@ EXCEPT !.pc = "finally",
                               !.raised = Exception("connection already closed")]
                ELSE IF CheckedTablesExist(r.endpoint)
                THEN [@ EXCEPT !.pc = "query", !.executed = Append(@, "check")]
                ELSE [@ EXCEPT !.pc = "finally", !.executed = Append(@, "check"),
                               !.raised = HTTPException(501, "table not yet implemented")]]
        /\ UNCHANGED <<tables, response, connections>>

\* The existence check raises.
CheckRaises(i) ==
    /\ requests[i].pc = "check"
    /\ requests' =
         [requests EXCEPT ![i] =
            [@ EXCEPT !.pc = "finally", !.executed = Append(@, "check"),
                      !.raised = Exception("statement failed")]]
    /\ UNCHANGED <<tables, response, connections>>

\* cursor.execute(query, params); results = cursor.fetchall()
Execute(i) ==
    LET r == requests[i]
    IN  /\ r.pc = "query"
        /\ \E results \in (IF connections[r.conn].open /\ QueryTablesExist(r.endpoint)
                           THEN DataQuery(r.endpoint, r.params, r.fields)
                           ELSE {<<>>}) :
              requests' =
                [requests EXCEPT ![i] =
                   IF ~connections[r.conn].open
                   THEN [@ EXCEPT !.pc = "finally",
                                  !.raised = Exception("connection already closed")]
                   ELSE IF ~QueryTablesExist(r.endpoint)
                   THEN [@ EXCEPT !.pc = "finally", !.executed = Append(@, "data"),
                                  !.raised = Exception("relation does not exist")]
                   ELSE [@ EXCEPT !.pc = "finally", !.executed = Append(@, "data"),
                                  !.results = results]]
        /\ UNCHANGED <<tables, response, connections>>

\* The data query raises.
ExecuteRaises(i) ==
    /\ requests[i].pc = "query"
    /\ requests' =
         [requests EXCEPT ![i] =
            [@ EXCEPT !.pc = "finally", !.executed = Append(@, "data"),
                      !.raised = Exception("statement failed")]]
    /\ UNCHANGED <<tables, response, connections>>

\* finally: conn.close()
LeftOpenOnError(conn, raised) ==
    IF raised = NoException
    THEN [conn EXCEPT !.open = FALSE, !.closes = @ + 1]
    ELSE conn
Close(conn, raised) == [conn EXCEPT !.open = FALSE, !.closes = @ + 1]

\* The with block of get_db_connection is left, by return or by exception.
Finally(i) ==
    LET r == requests[i]
    IN  /\ r.pc = "finally"
        /\ connections' =
             [connections EXCEPT ![r.conn] = Close(@, r.raised)]
        /\ requests' =
             [requests EXCEPT ![i] =
                [@ EXCEPT !.pc = IF r.raised = NoException THEN "return" ELSE "except"]]
        /\ UNCHANGED <<tables, response>>

\* The except clauses of a handler: except HTTPException: raise / except
\* Exception as e: raise HTTPException(status_code=500, detail=str(e));
\* health_check returns {"status": "unhealthy", "error": str(e)} instead.
ExceptLikeHealthCheck(ep, raised) ==
    [status |-> 200, detail |-> <<raised.text>>, rows |-> <<"unhealthy">>]
ExceptClause(ep, raised) ==
    IF ep = "health"
    THEN [status |-> 200, detail |-> <<raised.text>>, rows |-> <<"unhealthy">>]
    ELSE IF raised.kind = "HTTPException" /\ ReraisesHTTPException(ep)
    THEN [status |-> raised.status, detail |-> <<raised.text>>, rows |-> <<>>]
    ELSE [status |-> 500, detail |-> <<raised.text>>, rows |-> <<>>]

\* The exception reaches the handler's except clauses.
Except(i) ==
    LET r == requests[i]
        out == ExceptClause(r.endpoint, r.raised)
    IN  /\ r.pc = "except"
        /\ requests' =
             [requests EXCEPT ![i] =
                [@ EXCEPT !.pc = "done", !.status = out.status,
                          !.detail = out.detail, !.rows = out.rows]]
        /\ UNCHANGED <<tables, response, connections>>

\* return results: the response model validates the rows.
Return(i) ==
    LET r == requests[i]
    IN  /\ r.pc = "return"
        /\ requests' =
             [requests EXCEPT ![i] =
                IF \A j \in 1..Len(r.results) : ValidRow(r.endpoint, r.results[j])
                THEN [@ EXCEPT !.pc = "done", !.status = 200, !.rows = r.results]
                ELSE [@ EXCEPT !.pc = "done", !.status = 500,
                               !.detail = <<"response validation failed">>]]
        /\ UNCHANGED <<tables, response, connections>>

\* One step of the handler of request i.
Step(i) ==
    \/ Body(i)
    \/ Connect(i)
    \/ ConnectRaises(i)
    \/ CheckTable(i)
    \/ CheckRaises(i)
    \/ Execute(i)
    \/ ExecuteRaises(i)
    \/ Finally(i)
    \/ Except(i)
    \/ Return(i)

-----------------------------------------------------------------------------
(* Databases and requests of the step-by-step specifications.              *)

\* A database with every table and view, one with the base tables only,
\* and one with no table at all.
FlowLoad ==
    Table({LoadRow(TS(1, 1, 0), R(0), R(0)), LoadRow(TS(1, 2, 0), R(0), R(0)),
           LoadRow(TS(1, 3, 0), R(2), R(0))})
FlowWeather == WeatherOn({[month |-> 1, day |-> d] : d \in 1..3})
FlowCompare ==
    Table({[hour_end |-> 1, actual |-> [coast |-> R(10), east |-> R(10)],
            expected |-> [coast |-> R(9), east |-> R(9)]],
           [hour_end |-> 2, actual |-> [coast |-> R(20), east |-> R(20)],
            expected |-> [coast |-> R(21), east |-> R(21)]]})
FlowExpected ==
    Table({LoadRow(TS(1, 1, 0), R(3), R(0)), LoadRow(TS(1, 4, 0), R(1), R(0))})
FlowPrecipitation ==
    Table({[zone_code |-> "coast", date |-> 1, rainy_day |-> TRUE,
            avg_load_mw |-> R(5), num_days |-> 1],
           [zone_code |-> "coast", date |-> 2, rainy_day |-> FALSE,
            avg_load_mw |-> R(6), num_days |-> 2],
           [zone_code |-> "east", date |-> 1, rainy_day |-> FALSE,
            avg_load_mw |-> R(4), num_days |-> 3]})
FlowOutlierWeather ==
    Table({[std_dev_threshold |-> R(1), month_start |-> [month |-> 1, day |-> 1],
            outlier_group |-> "high", num_days |-> 1, avg_temp_c |-> R(23)],
           [std_dev_threshold |-> R(3), month_start |-> [month |-> 1, day |-> 1],
            outlier_group |-> "low", num_days |-> 1, avg_temp_c |-> R(21)]})
FlowHeatLoad == Table({PeakRow("east", 1, R(99)), PeakRow("coast", 1, R(99))})
FlowStreaks ==
    StreaksTable(HeatwaveStreaksRows(FlowWeather.rows, StationZoneMap.rows,
                                     FlowLoad.rows, R(70), ViewMinLength),
                 R(70), ViewMinLength)

FullDatabase ==
    [ercot_load_wide_compare |-> FlowCompare, ercot_load |-> FlowLoad,
     weather_hourly |-> FlowWeather, station_zone_map |-> StationZoneMap,
     extreme_heat_load |-> FlowHeatLoad, heatwave_streaks |-> FlowStreaks,
     ercot_load_wide_expected |-> FlowExpected,
     precipitation_impact |-> FlowPrecipitation,
     load_outlier_weather |-> FlowOutlierWeather]
BaseDatabase ==
    [FullDatabase EXCEPT !.ercot_load_wide_compare = NoTable,
                         !.extreme_heat_load = NoTable,
                         !.heatwave_streaks = NoTable,
                         !.ercot_load_wide_expected = NoTable,
                         !.precipitation_impact = NoTable,
                         !.load_outlier_weather = NoTable]
NoDatabase ==
    [BaseDatabase EXCEPT !.ercot_load = NoTable, !.weather_hourly = NoTable,
                         !.station_zone_map = NoTable]

\* The state of the server with database db and no request received yet.
InitWith(db) ==
    /\ ercot_load_wide_compare = db.ercot_load_wide_compare
    /\ ercot_load = db.ercot_load
    /\ weather_hourly = db.weather_hourly
    /\ station_zone_map = db.station_zone_map
    /\ extreme_heat_load = db.extreme_heat_load
    /\ heatwave_streaks = db.heatwave_streaks
    /\ ercot_load_wide_expected = db.ercot_load_wide_expected
    /\ precipitation_impact = db.precipitation_impact
    /\ load_outlier_weather = db.load_outlier_weather
    /\ response = NoResponse
    /\ requests = [i \in RequestIds |-> IdleRequest]
    /\ connections = <<>>

\* A request.
Request(endpoint, params) == [endpoint |-> endpoint, params |-> params]

\* A model parameter that was not passed.
NoModel == "none"

\* The requests of each endpoint: parameters inside and outside their
\* declared ranges, region lists with and without an invalid name, and the
\* model parameter the tests send.
HourlyRequests ==
    {Request("hourly", [start_date |-> NoDate, end_date |-> e, limit |-> n])
       : e \in {NoDate, TimeNumber(TS(1, 2, 0))},
         n \in {NotPassedInt, 0, 1, 2, 10000, 10001}}
RegionLists ==
    {<<>>, <<"coast">>, <<"east", "coast">>, <<"bogus">>, <<"coast", "bogus">>,
     <<"coast", "">>}
ComparisonRequests ==
    {Request("comparison", [start_date |-> NoDate, end_date |-> NoDate,
                            region |-> g, limit |-> n, model |-> NoModel])
       : g \in RegionLists, n \in {0, 2}}
    \cup {Request("comparison", [start_date |-> NoDate, end_date |-> NoDate,
                                 region |-> <<>>, limit |-> 1, model |-> m])
            : m \in {"statistical", "xgb", "invalid_model"}}
MetricsRequests ==
    {Request("forecast_metrics", [start_date |-> NoDate, end_date |-> NoDate,
                                  region |-> <<>>, model |-> m])
       : m \in {NoModel, "statistical", "xgb", "invalid"}}
StreakRequests ==
    {Request("heatwaves", [zone |-> <<>>, min_temp_f |-> R(70), min_days |-> n,
                           start_date |-> NoDate, end_date |-> NoDate])
       : n \in {NotPassedInt, -2, 0, 1}}
PrecipitationRequests ==
    {Request("precipitation", [zone |-> z, start_date |-> NoDate, end_date |-> e])
       : z \in {<<>>, <<"coast">>}, e \in {NoDate, 1}}
PeakRequests ==
    {Request("peak_load_extreme_heat",
             [zone |-> NoZone, start_date |-> NoDate, end_date |-> NoDate,
              threshold |-> p])
       : p \in {NotPassed, R(0), R(-1), R(101)}}
OutlierWeatherRequests ==
    {Request("outliers_weather",
             [start_date |-> NoDate, end_date |-> NoDate, month |-> m,
              outlier_type |-> NoType, std_dev_threshold |-> k])
       : m \in {<<>>, <<1>>}, k \in {NotPassed, R(1), <<1, 2>>, R(6)}}
DailyOutlierRequests ==
    {Request("daily_outliers",
             [start_month |-> NoMonth, end_month |-> NoMonth,
              outlier_type |-> NoType, std_dev_threshold |-> k])
       : k \in {R(1), <<1, 2>>, R(6)}}
ExtremeHeatRequests ==
    {Request("extreme_heat_analysis", [zone |-> <<>>, percentile_threshold |-> p])
       : p \in {R(99), R(25)}}
HealthRequests == {Request("health", <<>>)}

FlowRequests ==
    HourlyRequests \cup ComparisonRequests \cup MetricsRequests \cup StreakRequests
    \cup PrecipitationRequests \cup PeakRequests \cup OutlierWeatherRequests
    \cup DailyOutlierRequests \cup ExtremeHeatRequests \cup HealthRequests

\* One request at a time, of any endpoint, over each database.
InitFlow == \E db \in {FullDatabase, BaseDatabase, NoDatabase} : InitWith(db)

NextFlow ==
    \/ \E req \in FlowRequests : Receive(1, req)
    \/ Step(1)

SpecFlow == InitFlow /\ [][NextFlow]_vars

\* Several requests in flight at once, their steps interleaved: a handler
\* without and one with a table check, over the whole and the base database.
ConcurrentRequests ==
    {Request("hourly", [start_date |-> NoDate, end_date |-> NoDate, limit |-> 2]),
     Request("forecast_metrics", [start_date |-> NoDate, end_date |-> NoDate,
                                  region |-> <<>>, model |-> NoModel])}

InitConcurrent == \E db \in {FullDatabase, BaseDatabase} : InitWith(db)

NextConcurrent ==
    \E i \in RequestIds :
       \/ \E req \in ConcurrentRequests : Receive(i, req)
       \/ Step(i)

SpecConcurrent == InitConcurrent /\ [][NextConcurrent]_vars

-----------------------------------------------------------------------------
(* Properties of the connection handling and of the error paths.           *)

\* The requests received so far.
Received == {i \in DOMAIN requests : requests[i].endpoint # "none"}

\* C21: every request that opened a connection closes it exactly once before
\* its outcome is produced, on the normal return, on the HTTPException (501)
\* and on any other exception raised inside the block: the connection is
\* open and never closed while the request is inside the with block, closed
\* once from the moment the block is left, and no connection of a completed
\* request is open.
C21_ConnectionClosedExactlyOnce ==
    \A i \in Received :
        /\ (requests[i].conn # 0 /\ requests[i].pc \in {"check", "query", "finally"}) =>
              /\ connections[requests[i].conn].open
              /\ connections[requests[i].conn].closes = 0
        /\ (requests[i].conn # 0 /\ requests[i].pc \in {"return", "except", "done"}) =>
              /\ ~connections[requests[i].conn].open
              /\ connections[requests[i].conn].closes = 1
        /\ requests[i].pc = "done" =>
              \A c \in 1..Len(connections) :
                 connections[c].owner = i => ~connections[c].open

\* A request answered 501 after opening a connection, which is closed.
C21_Witness ==
    \E i \in Received :
        /\ requests[i].pc = "done"
        /\ requests[i].status = 501
        /\ requests[i].conn # 0
        /\ connections[requests[i].conn].closes = 1

\* The other two paths: a request answered with rows, and one whose query
\* raised, each after opening a connection.
ClosedAfterReturn ==
    \E i \in Received :
        /\ requests[i].pc = "done" /\ requests[i].status = 200
        /\ requests[i].rows # <<>> /\ requests[i].conn # 0
        /\ connections[requests[i].conn].closes = 1
ClosedAfterException ==
    \E i \in Received :
        /\ requests[i].pc = "done" /\ requests[i].status = 500
        /\ requests[i].raised.text = "statement failed"
        /\ connections[requests[i].conn].closes = 1

\* C22: in every data endpoint an exception raised while connecting to the
\* database or executing a statement ends the request with HTTP 500 whose
\* detail is the exception's text, and no row is returned with it.
C22_DatabaseFailureIs500 ==
    \A i \in Received :
        (/\ requests[i].endpoint # "health"
         /\ requests[i].raised.kind = "Exception"
         /\ requests[i].pc = "done") =>
            /\ requests[i].status = 500
            /\ requests[i].detail = <<requests[i].raised.text>>
            /\ requests[i].rows = <<>>

\* A request whose data query raised after its table check had passed.
C22_Witness ==
    \E i \in Received :
        /\ requests[i].pc = "done"
        /\ requests[i].status = 500
        /\ requests[i].executed = <<"check", "data">>
        /\ requests[i].detail = <<"statement failed">>

\* The failure to connect and the query over a missing table end the same
\* way.
ConnectFailureAnswered ==
    \E i \in Received :
        /\ requests[i].pc = "done" /\ requests[i].status = 500
        /\ requests[i].conn = 0
        /\ requests[i].detail = <<"could not connect to server">>
MissingRelationAnswered ==
    \E i \in Received :
        /\ requests[i].pc = "done" /\ requests[i].status = 500
        /\ requests[i].endpoint = "hourly"
        /\ requests[i].detail = <<"relation does not exist">>

\* The table an endpoint checks for is missing.
RequiredTableMissing(ep) ==
    \/ ep = "forecast_metrics" /\ ~ercot_load_wide_compare.exists
    \/ ep = "heatwaves" /\ ~heatwave_streaks.exists
    \/ ep = "precipitation" /\ ~precipitation_impact.exists
    \/ ep = "peak_load_extreme_heat" /\ ~extreme_heat_load.exists
    \/ ep = "outliers_weather" /\ ~load_outlier_weather.exists
    \/ ep = "extreme_heat_analysis"
          /\ ~(weather_hourly.exists /\ station_zone_map.exists /\ ercot_load.exists)

AnsweredNotImplemented(ep) ==
    \E i \in Received :
        /\ requests[i].pc = "done"
        /\ requests[i].endpoint = ep
        /\ requests[i].status = 501

\* The names of a region list that are not one of the nine regions.
NamesOutsideList(region) ==
    SelectSeq(region, LAMBDA name :
        name \notin {"coast", "east", "far_west", "north", "north_c", "southern",
                     "south_c", "west", "ercot"})

\* C24: when the region list of a /load/comparison request that entered the
\* handler holds a name
\* outside the nine regions the request ends with 400 naming the invalid
\* names before any connection is opened or select field built, and no name
\* outside the list is ever among the select fields of a query.
C24_InvalidRegionIs400 ==
    \A i \in Received :
        requests[i].endpoint = "comparison" =>
            /\ \A k \in 1..Len(requests[i].fields) :
                  NamesOutsideList(<<requests[i].fields[k]>>) = <<>>
            /\ (requests[i].entered
                /\ NamesOutsideList(requests[i].params.region) # <<>>) =>
                  /\ requests[i].pc = "done"
                  /\ requests[i].status = 400
                  /\ requests[i].detail = NamesOutsideList(requests[i].params.region)
                  /\ requests[i].conn = 0
                  /\ requests[i].executed = <<>>
                  /\ requests[i].fields = <<>>
                  /\ \A c \in 1..Len(connections) : connections[c].owner # i

\* A list with a valid and an invalid name, answered 400 naming the invalid
\* one.
C24_Witness ==
    \E i \in Received :
        /\ requests[i].endpoint = "comparison"
        /\ requests[i].params.region = <<"coast", "bogus">>
        /\ requests[i].status = 400
        /\ requests[i].detail = <<"bogus">>
        /\ connections = <<>>

\* A list of valid names reaches the database with one pair of select fields
\* per name.
ValidRegionsQueried ==
    \E i \in Received :
        /\ requests[i].endpoint = "comparison"
        /\ requests[i].fields = <<"east", "coast">>
        /\ requests[i].status = 200

\* C25: a request to /load/comparison or /forecast/metrics whose model
\* parameter is not a supported model is rejected with 400 without any
\* database access, while statistical and xgb are accepted.
C25_InvalidModelIs400 ==
    \A i \in Received :
        (/\ requests[i].endpoint \in {"comparison", "forecast_metrics"}
         /\ requests[i].params.model \notin {NoModel, "statistical", "xgb"}) =>
            /\ requests[i].conn = 0
            /\ requests[i].pc = "done" => requests[i].status = 400

\* The numeric parameter of a request is outside its declared range.
OutOfRange(ep, p) ==
    \/ ep = "heatwaves" /\ p.min_days # NotPassedInt /\ p.min_days < 1
    \/ ep = "peak_load_extreme_heat" /\ p.threshold # NotPassed
          /\ (RLt(p.threshold, R(0)) \/ RGt(p.threshold, R(100)))
    \/ ep \in {"outliers_weather", "daily_outliers"} /\ p.std_dev_threshold # NotPassed
          /\ (RLt(p.std_dev_threshold, R(1)) \/ RGt(p.std_dev_threshold, R(5)))
    \/ ep = "hourly" /\ p.limit # NotPassedInt /\ (p.limit < 1 \/ p.limit > 10000)

\* C26: a request whose bounded numeric parameter is out of range (min_days
\* < 1, threshold outside [0, 100], std_dev_threshold outside [1, 5], limit
\* outside [1, 10000]) ends with 422, the handler body is never entered and
\* no connection is opened for it.
C26_OutOfRangeIs422 ==
    \A i \in Received :
        OutOfRange(requests[i].endpoint, requests[i].params) =>
            /\ requests[i].pc = "done"
            /\ requests[i].status = 422
            /\ ~requests[i].entered
            /\ requests[i].conn = 0
            /\ \A c \in 1..Len(connections) : connections[c].owner # i

\* /load/hourly rejected for limit = 0.
C26_Witness ==
    \E i \in Received :
        /\ requests[i].endpoint = "hourly"
        /\ requests[i].params.limit = 0
        /\ requests[i].status = 422
        /\ connections = <<>>

\* Each of the other endpoints rejects an out-of-range value, and each
\* accepts the ends of its range.
RejectedOutOfRange(ep) ==
    \E i \in Received :
        /\ requests[i].endpoint = ep
        /\ OutOfRange(ep, requests[i].params)
        /\ requests[i].status = 422
RangeEndsAccepted ==
    \A i \in Received :
        (\/ requests[i].endpoint = "hourly" /\ requests[i].params.limit \in {1, 10000}
         \/ requests[i].endpoint = "heatwaves" /\ requests[i].params.min_days = 1
         \/ requests[i].endpoint = "peak_load_extreme_heat"
               /\ requests[i].params.threshold = R(0)
         \/ requests[i].endpoint = "outliers_weather"
               /\ requests[i].params.std_dev_threshold = R(1)) =>
            requests[i].status # 422

\* C28: when several requests are handled concurrently, in any
\* interleaving, each request operates on a connection it opened itself, no
\* connection is held by two requests, and one request closing its
\* connection or failing never closes or invalidates the connection of
\* another request in flight or changes its result.
C28_RequestsAreIsolated ==
    /\ \A i \in Received :
          /\ requests[i].conn # 0 => connections[requests[i].conn].owner = i
          /\ requests[i].pc \in {"check", "query", "finally"} =>
                connections[requests[i].conn].open
          /\ requests[i].raised.text # "connection already closed"
          /\ (requests[i].pc \in {"finally", "return", "done"}
              /\ requests[i].raised = NoException) =>
                requests[i].results \in
                    DataQuery(requests[i].endpoint, requests[i].params,
                              requests[i].fields)
    /\ \A i \in Received, j \in Received :
          (i # j /\ requests[i].conn # 0) => requests[i].conn # requests[j].conn

\* One request has failed and closed its connection while another, which
\* connected before that, still holds its own open and has fetched its rows.
C28_Witness ==
    \E i \in Received, j \in Received :
        /\ requests[i].pc = "done" /\ requests[i].status = 500
        /\ requests[i].conn > requests[j].conn
        /\ requests[j].pc = "finally"
        /\ requests[j].conn # 0
        /\ connections[requests[j].conn].open
        /\ requests[j].results # <<>>

\* A step of one request changes neither another request nor a connection
\* another request owns.
StepsTouchOwnStateOnly ==
    [][\A i \in DOMAIN requests :
          requests'[i] # requests[i] =>
             /\ \A j \in DOMAIN requests : j # i => requests'[j] = requests[j]
             /\ \A c \in 1..Len(connections) :
                   connections[c].owner # i => connections'[c] = connections[c]]_vars

====
